---- MODULE Spec2Model ----
(***************************************************************************)
(* Verification model of cs_caller: the connect attempt tracker            *)
(* (gui/connect_state.py), the GUI's asynchronous connect flow and tick    *)
(* loop (gui/app.py), the announcement gate (announcer.py), the frame      *)
(* sources (sources/), the source factory and its handshake probe          *)
(* (source_factory.py, ndi_handshake.py), the frame clock (frame_clock.py),*)
(* the callout mapper (callout_mapper.py), the command-line pipeline       *)
(* (pipeline.py) and the marker detector (detector.py).                    *)
(*                                                                         *)
(* The specifications of the module:                                       *)
(*   TrackerSpec     - one ConnectAttemptTracker driven by arbitrary       *)
(*                     start / finish / cancel calls;                      *)
(*   Spec            - the GUI connect flow with detection off: Tk         *)
(*                     main-thread handlers, the single-thread connect     *)
(*                     executor and its worker;                            *)
(*   DetectSpec      - the same GUI started with detection on, its tick    *)
(*                     loop feeding the gate;                              *)
(*   TimeoutSpec     - the GUI of Spec with its timeout timers fair;       *)
(*   LiveSpec        - the GUI of Spec with timers, queued callbacks and   *)
(*                     the worker's steps fair;                            *)
(*   AnnouncerSpec   - one Announcer driven by arbitrary process calls;    *)
(*   SinkFailureSpec - the GUI's Announcer with the failures of its sink   *)
(*                     logged;                                             *)
(*   SourceSpec      - one frame source of any class under arbitrary       *)
(*                     read and close calls;                               *)
(*   FactorySpec     - one build_source call and the helper process of its *)
(*                     handshake probe, the caller's steps being fair;     *)
(*   SelectSpec      - one select_best_ndi_source call on any input;       *)
(*   ClockSpec       - one FrameClock, its caller and the passing of time; *)
(*   MapperSpec      - one CalloutMapper and one point, given to map_point *)
(*                     or to point_in_polygon;                             *)
(*   PipelineSpec    - one Pipeline.run call on any source, detector and   *)
(*                     mapper results;                                     *)
(*   DetectorSpec    - one RedDotDetector.detect call on any contours.     *)
(* Each specification leaves the variables of the other components         *)
(* untouched.                                                              *)
(***************************************************************************)
EXTENDS Integers, Sequences, FiniteSets, TLC

VARIABLES
    \* ---- ConnectAttemptTracker under arbitrary calls (TrackerSpec)
    tracker,        \* the tracker object: _next_attempt_id, _active_attempt_id
    tr_prev,        \* history: the tracker before the last call
    tr_op,          \* history: the last call ("init", "start", "finish", "cancel")
    tr_arg,         \* history: the argument of the last call (finish), else None
    tr_ret,         \* history: what the last call returned
    tr_issued,      \* history: the ids start() returned, in order
    tr_dead,        \* history: ids that were cancelled or superseded by a later start
    \* ---- Announcer under arbitrary process calls (AnnouncerSpec)
    announcer,      \* the Announcer object: cooldown_sec, stable_frames,
                    \* _candidate, _candidate_count, _last_announced_at
    tts_said,       \* the texts the sink's say() received in the last call
    ann_ret,        \* history: what the last process call returned
    ann_raised,     \* history: whether the last process call ended in say() raising
    ann_inputs,     \* history: the callout inputs of the last MaxStable calls
    ann_now,        \* history: the now of the last call (None before the first)
    ann_mono,       \* history: the now values so far were non-decreasing
    ann_last_at,    \* history: per callout, now of its latest returned announcement
    ann_gap,        \* history: if the last call returned an announcement of a
                    \* callout announced before, the time between the two
    ann_prev_last,  \* history: _last_announced_at before the last call
    ann_uniform,    \* history: the number of calls so far if every one of them
                    \* was given the same callout and no say() raised, else None
    ann_fail,       \* history: callout and now of the latest call before the
                    \* last one in which say() raised (NoFail if none)
    \* ---- the GUI connect flow (Spec)
    app,            \* the RegionEditorApp object: _connect_tracker,
                    \* _connect_cancel_event, _connect_future, _source,
                    \* _consecutive_read_failures, _is_closing
    event_set,      \* the attempts whose threading.Event is set
    executor_queue, \* _connect_executor's work queue: submitted, not yet started
    worker,         \* the executor's single thread: the attempt it runs and where
    future_state,   \* per attempt, its Future: "none", "pending" or the outcome
    tk_after0,      \* Tk: the queued root.after(0, _on_connect_done, ...) calls
    tk_timers,      \* Tk: the pending _on_connect_timeout timers
    src_state,      \* per attempt, the FrameSource its worker builds:
                    \* "unbuilt", "open" or "closed"
    chk1,           \* history: what the worker's first is_set() test saw
    chk2,           \* history: what the worker's second is_set() test saw
    gui_ended,      \* history: attempts ended by _cancel_connect or by timeout
    done_seen,      \* history: per attempt, how its _on_connect_done ran
    gui_last,       \* history: the last main-thread handler and the app before it
    \* ---- the GUI tick loop's detection and gate (Spec with detection off,
    \*      DetectSpec with detection on)
    detect_var,     \* the "detect" checkbox
    gui_announcer,  \* the app's _announcer
    gui_now,        \* time.monotonic() at the latest gate call, in whole ticks
    gate_said,      \* history: what the gate returned in the last _tick_frame
    gate_seen,      \* history: what detection made of the frame of the last
                    \* _tick_frame ("off" when it made nothing of one)
    read_hist,      \* history: what source.read() did in the last _tick_frame
                    \* and how many reads in a row have failed on the
                    \* installed source
    gate_ticks,     \* history: gate calls since the current source was
                    \* installed (counted up to MaxStable)
    \* ---- one frame source object and its backend (SourceSpec)
    src_cfg,        \* what the source is built from: its class, the
                    \* reconnect_attempts argument, whether cyndilib has FrameSync
    frame_source,   \* the FrameSource object (NoSource before construction):
                    \* reconnect_attempts, _cap, _receiver, _frame_sync
    backend,        \* the backend handles: how many were created, which are open
    src_last,       \* history: the last call on the source, what it did and
                    \* the source and backend before it
    \* ---- build_source and the handshake probe subprocess (FactorySpec)
    factory_env,    \* what one build_source call meets: its arguments, the
                    \* preflight answers, how the probe worker behaves
    factory,        \* the build_source call: where it is, the steps it has
                    \* run in order, how it ended
    probe,          \* the run_ndi_probe_in_subprocess call: where it is, what
                    \* its is_alive() tests saw, the signals it sent, its result
    probe_proc,     \* the helper process and its queue
    \* ---- select_best_ndi_source on one input (SelectSpec)
    sel_in,         \* the arguments: discovered names, requested text
    sel_out,        \* the call's result (NotCalled before the call)
    \* ---- one FrameClock and its caller (ClockSpec)
    clock,          \* the FrameClock object: _interval, _next_tick
    clock_time,     \* time.monotonic(), in whole time units
    clock_hist,     \* history: the tick() calls so far, oldest first
    \* ---- one CalloutMapper and one point (MapperSpec)
    mapper,         \* the CalloutMapper object: regions
    map_in,         \* the point given to map_point
    map_out,        \* history: the call's result and the regions before it
    \* ---- one Pipeline.run call (PipelineSpec)
    pipeline,       \* the run call: where it is, max_frames, frames
    pipe_ticks,     \* history: per pass of the loop, the calls it made on the
                    \* Pipeline's objects, in order
    \* ---- one RedDotDetector.detect call (DetectorSpec)
    det_in,         \* the contours found in the frame's mask, and min_area
    det_out         \* the call's result (NotCalled before the call)

trackerVars == <<tracker, tr_prev, tr_op, tr_arg, tr_ret, tr_issued, tr_dead>>

annVars == <<announcer, tts_said, ann_ret, ann_raised, ann_inputs, ann_now,
             ann_mono, ann_last_at, ann_gap, ann_prev_last, ann_uniform,
             ann_fail>>

guiVars == <<app, event_set, executor_queue, worker, future_state, tk_after0,
             tk_timers, src_state, chk1, chk2, gui_ended, done_seen, gui_last,
             detect_var, gui_announcer, gui_now, gate_said, gate_seen,
             gate_ticks, read_hist>>

detectVars == <<detect_var, gui_announcer, gui_now, gate_said, gate_seen,
             gate_ticks>>

sourceVars == <<src_cfg, frame_source, backend, src_last>>

factoryVars == <<factory_env, factory, probe, probe_proc>>

selectVars == <<sel_in, sel_out>>

clockVars == <<clock, clock_time, clock_hist>>

mapperVars == <<mapper, map_in, map_out>>

\* the components that are plain library code: they share no state with
\* the tracker, the announcer, the GUI or the frame sources
libVars == <<factoryVars, selectVars, clockVars, mapperVars>>

pipeVars == <<pipeline, pipe_ticks>>

redDotVars == <<det_in, det_out>>

\* the command-line pipeline and its detector
coreVars == <<pipeVars, redDotVars>>

vars == <<trackerVars, annVars, guiVars, sourceVars, libVars, coreVars>>

\* a step of one component leaves the others alone
TrackerOnly ==
    UNCHANGED <<annVars, guiVars, sourceVars, libVars, coreVars>>
AnnouncerOnly ==
    UNCHANGED <<trackerVars, guiVars, sourceVars, libVars, coreVars>>
GuiOnly ==
    UNCHANGED <<trackerVars, annVars, sourceVars, libVars, coreVars>>
SourceOnly ==
    UNCHANGED <<trackerVars, annVars, guiVars, libVars, coreVars>>
AppOnly == UNCHANGED <<trackerVars, annVars, guiVars, sourceVars>>
FactoryOnly ==
    AppOnly /\ UNCHANGED <<selectVars, clockVars, mapperVars, coreVars>>
SelectOnly ==
    AppOnly /\ UNCHANGED <<factoryVars, clockVars, mapperVars, coreVars>>
ClockOnly ==
    AppOnly /\ UNCHANGED <<factoryVars, selectVars, mapperVars, coreVars>>
MapperOnly ==
    AppOnly /\ UNCHANGED <<factoryVars, selectVars, clockVars, coreVars>>
PipelineOnly == AppOnly /\ UNCHANGED <<libVars, redDotVars>>
DetectorOnly == AppOnly /\ UNCHANGED <<libVars, pipeVars>>

(***************************************************************************)
(* Bounds of the model.                                                    *)
(***************************************************************************)
\* how many attempts start() may issue in one behaviour
MaxAttempts == 4

\* Python's None, for fields typed "int | None"
None == -1

AttemptIds == 1..MaxAttempts

(***************************************************************************)
(* Announcer (announcer.py).  Time is counted in whole ticks of the        *)
(* injectable clock; a callout is a string, NoCallout stands for None.     *)
(***************************************************************************)
\* the latest now a process call may be given
MaxNow == 3
\* the largest stable_frames a constructed Announcer is given
MaxStable == 2
\* the largest cooldown_sec a constructed Announcer is given
MaxCooldown == 2
\* cap on _candidate_count (the count of an endlessly repeated callout)
MaxCount == 3

Callouts == {"Mid", "A"}
\* callout is None
NoCallout == "None"
\* process returned None
NoText == <<>>
\* float("-inf"), the default of _last_announced_at.get
NegInf == -1000000

\* text = f"<prefix> {callout}": the fixed prefix ("enemy possibly at" in the
\* source's language) followed by the callout
announce_text(callout) == <<"enemy possibly at", callout>>

\* __post_init__ of Announcer(tts, cooldown_sec, stable_frames); the
\* constructor raises for stable_frames <= 0, so no such object exists
Announcer_init(cooldown_sec, stable_frames) ==
    [cooldown_sec |-> cooldown_sec,
     stable_frames |-> stable_frames,
     candidate |-> NoCallout,
     candidate_count |-> 0,
     last_announced_at |-> <<>>]

\* dict.get(key, default)
dict_get(d, key, default) == IF key \in DOMAIN d THEN d[key] ELSE default

\* mutant: a gap of exactly cooldown_sec still counts as cooling down
in_cooldown_inclusive(ts, last_at, cooldown_sec) ==
    IF last_at = NegInf THEN FALSE ELSE ts - last_at <= cooldown_sec

\* ts - last_at < cooldown_sec, where last_at may be -inf
in_cooldown(ts, last_at, cooldown_sec) ==
    IF last_at = NegInf THEN FALSE ELSE ts - last_at < cooldown_sec

\* mutant: the candidate is replaced but the count keeps running
process_candidate_no_reset(a, callout) ==
    [a EXCEPT !.candidate = callout, !.candidate_count = @ + 1]

\* if callout == self._candidate: count += 1, else: candidate = callout, count = 1
process_candidate(a, callout) ==
    IF callout = a.candidate
    THEN [a EXCEPT !.candidate_count = @ + 1]
    ELSE [a EXCEPT !.candidate = callout, !.candidate_count = 1]

\* mutant: the announcement time is not recorded
record_announced_skip(d, callout, ts) == d

\* mutant: one timestamp shared by every callout
record_announced_all(d, callout, ts) == [c \in Callouts |-> ts]

\* self._last_announced_at[callout] = ts
record_announced(d, callout, ts) == (callout :> ts) @@ d

\* mutant: a None input forgets the candidate but keeps the count
process_none_keep_count(a) == [a EXCEPT !.candidate = NoCallout]

\* if callout is None: self._candidate = None; self._candidate_count = 0
process_none(a) == [a EXCEPT !.candidate = NoCallout, !.candidate_count = 0]

\* mutant: say() is called before the cooldown is looked at
Announcer_process_say_first(a, callout, ts, say_raises) ==
    IF callout = NoCallout
    THEN [a |-> process_none(a), ret |-> NoText, said |-> <<>>, raised |-> FALSE]
    ELSE LET b == process_candidate(a, callout)
         IN IF b.candidate_count < b.stable_frames
            THEN [a |-> b, ret |-> NoText, said |-> <<>>, raised |-> FALSE]
            ELSE LET last_at == dict_get(b.last_announced_at, callout, NegInf)
                 IN IF in_cooldown(ts, last_at, b.cooldown_sec)
                    THEN [a |-> b, ret |-> NoText,
                          said |-> <<announce_text(callout)>>, raised |-> FALSE]
                    ELSE [a |-> [b EXCEPT !.last_announced_at =
                                     record_announced(@, callout, ts)],
                          ret |-> announce_text(callout),
                          said |-> <<announce_text(callout)>>, raised |-> FALSE]

\* process(callout, now) with a sink whose say() raises iff say_raises:
\* the new object, the value returned, the texts say() received and
\* whether the call ended in the sink's exception
Announcer_process(a, callout, ts, say_raises) ==
    IF callout = NoCallout
    THEN [a |-> process_none(a), ret |-> NoText, said |-> <<>>, raised |-> FALSE]
    ELSE LET b == process_candidate(a, callout)
         IN IF b.candidate_count < b.stable_frames
            THEN [a |-> b, ret |-> NoText, said |-> <<>>, raised |-> FALSE]
            ELSE LET last_at == dict_get(b.last_announced_at, callout, NegInf)
                 IN IF in_cooldown(ts, last_at, b.cooldown_sec)
                    THEN [a |-> b, ret |-> NoText, said |-> <<>>, raised |-> FALSE]
                    ELSE IF say_raises
                    THEN [a |-> b, ret |-> NoText,
                          said |-> <<announce_text(callout)>>, raised |-> TRUE]
                    ELSE [a |-> [b EXCEPT !.last_announced_at =
                                     record_announced(@, callout, ts)],
                          ret |-> announce_text(callout),
                          said |-> <<announce_text(callout)>>, raised |-> FALSE]

(***************************************************************************)
(* The Announcer's driver: any sequence of process calls.                  *)
(***************************************************************************)
\* the Announcer the GUI constructs: stable_frames=2, the default cooldown
GuiAnnouncer == Announcer_init(2, 2)

\* no say() has raised so far
NoFail == [callout |-> NoCallout, at |-> None]

\* the state of the announcer variables before any Announcer is driven
AnnouncerIdle ==
    /\ announcer = Announcer_init(2, 3)
    /\ tts_said = <<>>
    /\ ann_ret = NoText
    /\ ann_raised = FALSE
    /\ ann_inputs = <<>>
    /\ ann_now = None
    /\ ann_mono = TRUE
    /\ ann_last_at = [c \in Callouts |-> None]
    /\ ann_gap = None
    /\ ann_prev_last = <<>>
    /\ ann_uniform = 0
    /\ ann_fail = NoFail

\* the new value of ann_uniform after a call given callout
NextUniform(callout, raised) ==
    IF /\ ann_uniform # None
       /\ callout # NoCallout
       /\ ~raised
       /\ (ann_uniform = 0 \/ callout = ann_inputs[Len(ann_inputs)])
    THEN ann_uniform + 1
    ELSE None

\* the last MaxStable elements of s
LastInputs(s) ==
    IF Len(s) <= MaxStable THEN s ELSE SubSeq(s, Len(s) - MaxStable + 1, Len(s))

\* one process call and the history it leaves, the sink-failure log apart
AnnCall(callout, ts, say_raises) ==
    /\ callout = announcer.candidate => announcer.candidate_count < MaxCount
    /\ LET r == Announcer_process(announcer, callout, ts, say_raises)
       IN /\ announcer' = r.a
          /\ tts_said' = r.said
          /\ ann_ret' = r.ret
          /\ ann_raised' = r.raised
          /\ IF r.ret # NoText
             THEN /\ ann_gap' = IF ann_last_at[callout] = None
                                 THEN None
                                 ELSE ts - ann_last_at[callout]
                  /\ ann_last_at' = [ann_last_at EXCEPT ![callout] = ts]
             ELSE /\ ann_gap' = None
                  /\ UNCHANGED ann_last_at
          /\ ann_uniform' = NextUniform(callout, r.raised)
    /\ ann_prev_last' = announcer.last_announced_at
    /\ ann_inputs' = LastInputs(Append(ann_inputs, callout))
    /\ ann_now' = ts
    /\ ann_mono' = (ann_mono /\ (ann_now = None \/ ann_now <= ts))

AnnProcess ==
    \E callout \in Callouts \cup {NoCallout}, ts \in 0..MaxNow, say_raises \in BOOLEAN :
        /\ AnnCall(callout, ts, say_raises)
        /\ UNCHANGED ann_fail
        /\ AnnouncerOnly

\* the same call, in a run that keeps the log of the sink's failures
AnnProcessSinkLog ==
    \E callout \in Callouts \cup {NoCallout}, ts \in 0..MaxNow, say_raises \in BOOLEAN :
        /\ AnnCall(callout, ts, say_raises)
        /\ ann_fail' = IF ann_raised
                       THEN [callout |-> ann_inputs[Len(ann_inputs)], at |-> ann_now]
                       ELSE ann_fail
        /\ AnnouncerOnly

(***************************************************************************)
(* ConnectAttemptTracker (gui/connect_state.py)                            *)
(***************************************************************************)
\* __init__
Tracker_init == [next_attempt_id |-> 0, active_attempt_id |-> None]

\* property is_connecting
is_connecting(tr) == tr.active_attempt_id # None

\* mutant: start() that forgets to advance _next_attempt_id once an id was issued
Tracker_start_reuse(tr) ==
    LET n == IF tr.next_attempt_id = 0 THEN 1 ELSE tr.next_attempt_id
    IN [tr |-> [next_attempt_id |-> n, active_attempt_id |-> n], ret |-> n]

\* start(): returns the new tracker and the id returned
Tracker_start(tr) ==
    LET n == tr.next_attempt_id + 1
    IN [tr |-> [next_attempt_id |-> n, active_attempt_id |-> n], ret |-> n]

\* mutant: finish() that accepts any id while an attempt is active
Tracker_finish_any(tr, attempt_id) ==
    IF tr.active_attempt_id = None
    THEN [tr |-> tr, ret |-> FALSE]
    ELSE [tr |-> [tr EXCEPT !.active_attempt_id = None], ret |-> TRUE]

\* finish(attempt_id)
Tracker_finish(tr, attempt_id) ==
    IF tr.active_attempt_id # attempt_id
    THEN [tr |-> tr, ret |-> FALSE]
    ELSE [tr |-> [tr EXCEPT !.active_attempt_id = None], ret |-> TRUE]

\* mutant: cancel() that also rewinds the id counter
Tracker_cancel_rewind(tr) ==
    [tr |-> [next_attempt_id |-> IF tr.active_attempt_id = None
                                 THEN tr.next_attempt_id
                                 ELSE tr.next_attempt_id - 1,
             active_attempt_id |-> None],
     ret |-> tr.active_attempt_id]

\* mutant: cancel() that reports the active id but leaves it active
Tracker_cancel_keep(tr) == [tr |-> tr, ret |-> tr.active_attempt_id]

\* cancel()
Tracker_cancel(tr) ==
    [tr |-> [tr EXCEPT !.active_attempt_id = None], ret |-> tr.active_attempt_id]

(***************************************************************************)
(* The tracker's driver: any sequence of start, finish and cancel calls.   *)
(***************************************************************************)
TrackerIdle ==
    /\ tracker = Tracker_init
    /\ tr_prev = Tracker_init
    /\ tr_op = "init"
    /\ tr_arg = None
    /\ tr_ret = None
    /\ tr_issued = <<>>
    /\ tr_dead = {}

TrStart ==
    /\ tracker.next_attempt_id < MaxAttempts
    /\ LET r == Tracker_start(tracker)
       IN /\ tracker' = r.tr
          /\ tr_ret' = r.ret
          /\ tr_issued' = Append(tr_issued, r.ret)
    /\ tr_prev' = tracker
    /\ tr_op' = "start"
    /\ tr_arg' = None
    /\ tr_dead' = IF is_connecting(tracker)
                  THEN tr_dead \cup {tracker.active_attempt_id}
                  ELSE tr_dead
    /\ TrackerOnly

TrFinish ==
    \E id \in AttemptIds :
        /\ LET r == Tracker_finish(tracker, id)
           IN /\ tracker' = r.tr
              /\ tr_ret' = r.ret
        /\ tr_prev' = tracker
        /\ tr_op' = "finish"
        /\ tr_arg' = id
        /\ UNCHANGED <<tr_issued, tr_dead>>
        /\ TrackerOnly

TrCancel ==
    /\ LET r == Tracker_cancel(tracker)
       IN /\ tracker' = r.tr
          /\ tr_ret' = r.ret
    /\ tr_prev' = tracker
    /\ tr_op' = "cancel"
    /\ tr_arg' = None
    /\ tr_dead' = IF is_connecting(tracker)
                  THEN tr_dead \cup {tracker.active_attempt_id}
                  ELSE tr_dead
    /\ UNCHANGED tr_issued
    /\ TrackerOnly

(***************************************************************************)
(* RegionEditorApp's connect flow (gui/app.py).                            *)
(*                                                                         *)
(* The app object holds the fields the connect handlers read and write.    *)
(* An attempt id names, besides the attempt, the objects created for it:   *)
(* its threading.Event, its Future and the FrameSource its worker builds.  *)
(* Status texts, the error banner, button states, the detect switch and    *)
(* the persisted settings are display state and are not modelled.          *)
(***************************************************************************)
\* how many connect attempts the user may start in one behaviour
MaxConnects == 3
\* how many connect requests one behaviour of DetectSpec may hold
MaxDetectConnects == 2

\* connect requests in the runs checked for liveness
MaxTimeoutConnects == 2

ConnectIds == 1..MaxConnects

\* self._read_failure_disconnect_threshold = 3
read_failure_disconnect_threshold == 3

\* the fields set in __init__
App_init ==
    [connect_tracker |-> Tracker_init,
     connect_cancel_event |-> None,
     connect_future |-> None,
     source |-> None,
     consecutive_read_failures |-> 0,
     is_closing |-> FALSE]

\* _close_source: the new app object and the sources it closed
close_source(g) ==
    IF g.source = None
    THEN [g |-> g, closed |-> {}]
    ELSE [g |-> [g EXCEPT !.source = None, !.consecutive_read_failures = 0],
          closed |-> {g.source}]

\* _cancel_connect: the new app object, the events it set and the attempt
\* it ended
cancel_connect(g) ==
    LET r == Tracker_cancel(g.connect_tracker)
    IN IF r.ret = None
       THEN [g |-> [g EXCEPT !.connect_tracker = r.tr], set_ev |-> {}, ended |-> {}]
       ELSE [g |-> [g EXCEPT !.connect_tracker = r.tr,
                             !.connect_cancel_event = None,
                             !.connect_future = None],
             set_ev |-> IF g.connect_cancel_event # None
                        THEN {g.connect_cancel_event}
                        ELSE {},
             ended |-> {r.ret}]

\* mutant: _on_connect_timeout without the finish(attempt_id) test
on_connect_timeout_any_attempt(g, attempt_id) ==
    [g |-> [g EXCEPT !.connect_tracker.active_attempt_id = None,
                     !.connect_cancel_event = None,
                     !.connect_future = None],
     set_ev |-> IF g.connect_cancel_event # None
                THEN {g.connect_cancel_event}
                ELSE {},
     ended |-> IF is_connecting(g.connect_tracker)
               THEN {g.connect_tracker.active_attempt_id}
               ELSE {}]

\* _on_connect_timeout(attempt_id)
on_connect_timeout(g, attempt_id) ==
    LET r == Tracker_finish(g.connect_tracker, attempt_id)
    IN IF ~r.ret
       THEN [g |-> g, set_ev |-> {}, ended |-> {}]
       ELSE [g |-> [g EXCEPT !.connect_tracker = r.tr,
                             !.connect_cancel_event = None,
                             !.connect_future = None],
             set_ev |-> IF g.connect_cancel_event # None
                        THEN {g.connect_cancel_event}
                        ELSE {},
             ended |-> {attempt_id}]

\* mutant: _on_connect_done without the "if not active" test before the
\* source is installed
on_connect_done_install_stale(g, attempt_id, fut) ==
    IF g.is_closing
    THEN [g |-> g, closed |-> IF fut = "source" THEN {attempt_id} ELSE {},
          active |-> FALSE]
    ELSE LET r == Tracker_finish(g.connect_tracker, attempt_id)
             g1 == [g EXCEPT !.connect_tracker = r.tr,
                             !.connect_future = None,
                             !.connect_cancel_event = None]
         IN CASE fut = "connect_cancelled" ->
                   [g |-> g1, closed |-> {}, active |-> r.ret]
              [] fut \in {"error", "cancelled"} ->
                   [g |-> IF r.ret THEN [g1 EXCEPT !.source = None] ELSE g1,
                    closed |-> {}, active |-> r.ret]
              [] fut = "source" ->
                   [g |-> [g1 EXCEPT !.source = attempt_id,
                                     !.consecutive_read_failures = 0],
                    closed |-> {}, active |-> r.ret]

\* _on_connect_done(attempt_id, future), fut being the future's outcome:
\* the new app object, the sources it closed and what finish returned
on_connect_done(g, attempt_id, fut) ==
    IF g.is_closing
    THEN [g |-> g, closed |-> IF fut = "source" THEN {attempt_id} ELSE {},
          active |-> FALSE]
    ELSE LET r == Tracker_finish(g.connect_tracker, attempt_id)
             g1 == [g EXCEPT !.connect_tracker = r.tr,
                             !.connect_future = None,
                             !.connect_cancel_event = None]
         IN CASE fut = "connect_cancelled" ->
                   [g |-> g1, closed |-> {}, active |-> r.ret]
              [] fut \in {"error", "cancelled"} ->
                   [g |-> IF r.ret THEN [g1 EXCEPT !.source = None] ELSE g1,
                    closed |-> {}, active |-> r.ret]
              [] fut = "source" ->
                   IF ~r.ret
                   THEN [g |-> g1, closed |-> {attempt_id}, active |-> FALSE]
                   ELSE [g |-> [g1 EXCEPT !.source = attempt_id,
                                          !.consecutive_read_failures = 0],
                         closed |-> {}, active |-> TRUE]

\* what detector and mapper make of a frame: no marker, a marker outside
\* every region (callout None), or a marker inside a region
DetectOutcomes == {"no_marker", NoCallout} \cup Callouts

\* _run_detection_if_enabled with the checkbox on and a working sink: the
\* gate after the frame, what it returned, whether process was called
run_detection_if_enabled(a, seen, ts) ==
    IF seen = "no_marker"
    THEN [a |-> a, ret |-> NoText, called |-> FALSE]
    ELSE LET r == Announcer_process(a, seen, ts, FALSE)
         IN [a |-> r.a, ret |-> r.ret, called |-> TRUE]

\* _handle_source_error: cancel any attempt, close the source
handle_source_error(g) ==
    LET c == cancel_connect(g)
        k == close_source(c.g)
    IN [g |-> k.g, set_ev |-> c.set_ev, ended |-> c.ended, closed |-> k.closed]

\* mutant: _handle_source_read_failure with "attempt > threshold"
handle_source_read_failure_late(g) ==
    LET g1 == [g EXCEPT !.consecutive_read_failures = @ + 1]
    IN IF g1.consecutive_read_failures > read_failure_disconnect_threshold
       THEN handle_source_error(g1)
       ELSE [g |-> g1, set_ev |-> {}, ended |-> {}, closed |-> {}]

\* _handle_source_read_failure
handle_source_read_failure(g) ==
    LET g1 == [g EXCEPT !.consecutive_read_failures = @ + 1]
    IN IF g1.consecutive_read_failures >= read_failure_disconnect_threshold
       THEN handle_source_error(g1)
       ELSE [g |-> g1, set_ev |-> {}, ended |-> {}, closed |-> {}]

\* _safe_read_frame on an installed source; read is what source.read() did:
\* "frame", "none" (no frame), "read_error" (SourceReadError / SourceError)
\* or "connect_error" (SourceConnectError, or an unexpected exception)
safe_read_frame(g, read) ==
    CASE read = "connect_error" -> handle_source_error(g)
      [] read \in {"read_error", "none"} -> handle_source_read_failure(g)
      [] read = "frame" ->
           [g |-> [g EXCEPT !.consecutive_read_failures = 0],
            set_ev |-> {}, ended |-> {}, closed |-> {}]

\* mutant: the worker's second checkpoint raises without closing the source
worker_after_open_no_close(is_set) ==
    IF is_set
    THEN [src |-> "open", outcome |-> "connect_cancelled"]
    ELSE [src |-> "open", outcome |-> "source"]

\* _connect_source_worker after build_source returned: the second
\* cancel_event.is_set() test, the state it leaves the source in and the
\* future's outcome
worker_after_open(is_set) ==
    IF is_set
    THEN [src |-> "closed", outcome |-> "connect_cancelled"]
    ELSE [src |-> "open", outcome |-> "source"]

\* mutant: _connect_source without its is_connecting test
connect_source_while_connecting(g) ==
    LET k == close_source(g)
        r == Tracker_start(k.g.connect_tracker)
    IN [g |-> [k.g EXCEPT !.connect_tracker = r.tr,
                          !.connect_cancel_event = r.ret,
                          !.connect_future = r.ret],
        closed |-> k.closed,
        submitted |-> r.ret]

\* mutant: _connect_source without its _close_source call
connect_source_keep_source(g) ==
    IF is_connecting(g.connect_tracker)
    THEN [g |-> g, closed |-> {}, submitted |-> None]
    ELSE LET r == Tracker_start(g.connect_tracker)
         IN [g |-> [g EXCEPT !.connect_tracker = r.tr,
                             !.connect_cancel_event = r.ret,
                             !.connect_future = r.ret],
             closed |-> {},
             submitted |-> r.ret]

\* _connect_source (an attempt requested by the user or by __init__): the
\* new app object, the sources it closed and the attempt it submitted
connect_source(g) ==
    IF is_connecting(g.connect_tracker)
    THEN [g |-> g, closed |-> {}, submitted |-> None]
    ELSE LET k == close_source(g)
             r == Tracker_start(k.g.connect_tracker)
         IN [g |-> [k.g EXCEPT !.connect_tracker = r.tr,
                               !.connect_cancel_event = r.ret,
                               !.connect_future = r.ret],
             closed |-> k.closed,
             submitted |-> r.ret]

\* source.close() on each source of ids
Closed(st, ids) == [a \in DOMAIN st |-> IF a \in ids THEN "closed" ELSE st[a]]

\* no read since the current source was installed
ReadIdle == [read |-> "none_yet", run |-> 0]

\* a handler other than _tick_frame: the history of reads lasts as long as
\* the source it is about stays installed
ReadHistKept ==
    read_hist' = IF app'.source = app.source /\ app.source # None
                 THEN read_hist
                 ELSE ReadIdle

\* the state after __init__, before the optional automatic first connect
GuiStart(initial_detect_enabled) ==
    /\ app = App_init
    /\ event_set = {}
    /\ executor_queue = <<>>
    /\ worker = [attempt |-> None, pc |-> "idle"]
    /\ future_state = [a \in ConnectIds |-> "none"]
    /\ tk_after0 = <<>>
    /\ tk_timers = <<>>
    /\ src_state = [a \in ConnectIds |-> "unbuilt"]
    /\ chk1 = [a \in ConnectIds |-> "none"]
    /\ chk2 = [a \in ConnectIds |-> "none"]
    /\ gui_ended = {}
    /\ done_seen = [a \in ConnectIds |-> "none"]
    /\ gui_last = [op |-> "init", attempt |-> None, active |-> FALSE, prev |-> App_init]
    /\ detect_var = initial_detect_enabled
    /\ gui_announcer = GuiAnnouncer
    /\ gui_now = 0
    /\ gate_said = NoText
    /\ gate_seen = "off"
    /\ gate_ticks = 0
    /\ read_hist = ReadIdle

\* the GUI as constructed by default: initial_detect_enabled=False
GuiIdle == GuiStart(FALSE)

\* the connect button, the source entry's <Return>, "connect and detect"
GuiConnectSource ==
    /\ ~app.is_closing
    /\ app.connect_tracker.next_attempt_id < MaxConnects
    /\ LET r == connect_source(app)
       IN /\ app' = r.g
          /\ src_state' = Closed(src_state, r.closed)
          /\ IF r.submitted = None
             THEN UNCHANGED <<executor_queue, future_state, tk_timers>>
             ELSE /\ executor_queue' = Append(executor_queue, r.submitted)
                  /\ future_state' = [future_state EXCEPT ![r.submitted] = "pending"]
                  /\ tk_timers' = Append(tk_timers, r.submitted)
          /\ gui_last' = [op |-> IF r.submitted = None THEN "connect_ignored" ELSE "connect",
                          attempt |-> r.submitted, active |-> FALSE, prev |-> app]
    /\ UNCHANGED <<event_set, worker, tk_after0, chk1, chk2, gui_ended, done_seen>>
    /\ UNCHANGED detectVars
    /\ ReadHistKept
    /\ GuiOnly

\* the cancel button (enabled while connecting)
GuiCancelConnect ==
    /\ ~app.is_closing
    /\ is_connecting(app.connect_tracker)
    /\ LET r == cancel_connect(app)
       IN /\ app' = r.g
          /\ event_set' = event_set \cup r.set_ev
          /\ gui_ended' = gui_ended \cup r.ended
    /\ gui_last' = [op |-> "cancel", attempt |-> app.connect_tracker.active_attempt_id,
                    active |-> TRUE, prev |-> app]
    /\ UNCHANGED <<executor_queue, worker, future_state, tk_after0, tk_timers,
                   src_state, chk1, chk2, done_seen>>
    /\ UNCHANGED detectVars
    /\ ReadHistKept
    /\ GuiOnly

\* _on_source_mode_change: cancel the attempt, close the source
GuiSourceModeChange ==
    /\ ~app.is_closing
    /\ LET r == handle_source_error(app)
       IN /\ app' = r.g
          /\ event_set' = event_set \cup r.set_ev
          /\ gui_ended' = gui_ended \cup r.ended
          /\ src_state' = Closed(src_state, r.closed)
    /\ gui_last' = [op |-> "mode_change", attempt |-> app.connect_tracker.active_attempt_id,
                    active |-> is_connecting(app.connect_tracker), prev |-> app]
    /\ UNCHANGED <<executor_queue, worker, future_state, tk_after0, tk_timers,
                   chk1, chk2, done_seen>>
    /\ UNCHANGED detectVars
    /\ ReadHistKept
    /\ GuiOnly

\* _tick_frame with a source installed: read a frame and, if one came, run
\* the detection on it; seen is what detector and mapper make of the frame
GuiTickFrame ==
    /\ ~app.is_closing
    /\ app.source # None
    /\ \E read \in {"frame", "none", "read_error", "connect_error"} :
          LET r == safe_read_frame(app, read)
          IN /\ app' = r.g
             /\ event_set' = event_set \cup r.set_ev
             /\ gui_ended' = gui_ended \cup r.ended
             /\ src_state' = Closed(src_state, r.closed)
             /\ read_hist' =
                   [read |-> read,
                    run |-> CASE read = "frame" -> 0
                              [] read = "connect_error" -> read_hist.run
                              [] OTHER -> read_hist.run + 1]
             /\ IF read = "frame" /\ detect_var
                THEN \E seen \in DetectOutcomes, ts \in gui_now..MaxNow :
                        /\ seen = gui_announcer.candidate =>
                               gui_announcer.candidate_count < MaxCount
                        /\ LET d == run_detection_if_enabled(gui_announcer, seen, ts)
                           IN /\ gui_announcer' = d.a
                              /\ gate_said' = d.ret
                              /\ gate_seen' = seen
                              /\ gui_now' = IF d.called THEN ts ELSE gui_now
                              /\ gate_ticks' = IF d.called /\ gate_ticks < MaxStable
                                               THEN gate_ticks + 1
                                               ELSE gate_ticks
                ELSE /\ gate_said' = NoText
                     /\ gate_seen' = "off"
                     /\ UNCHANGED <<gui_announcer, gui_now, gate_ticks>>
    /\ UNCHANGED detect_var
    /\ gui_last' = [op |-> "tick", attempt |-> None, active |-> FALSE, prev |-> app]
    /\ UNCHANGED <<executor_queue, worker, future_state, tk_after0, tk_timers,
                   chk1, chk2, done_seen>>
    /\ GuiOnly

\* the timeout timer of the oldest pending attempt fires
GuiConnectTimeout ==
    /\ ~app.is_closing
    /\ tk_timers # <<>>
    /\ LET a == Head(tk_timers)
           r == on_connect_timeout(app, a)
       IN /\ app' = r.g
          /\ event_set' = event_set \cup r.set_ev
          /\ gui_ended' = gui_ended \cup r.ended
          /\ gui_last' = [op |-> "timeout", attempt |-> a,
                          active |-> (r.ended # {}), prev |-> app]
    /\ tk_timers' = Tail(tk_timers)
    /\ UNCHANGED <<executor_queue, worker, future_state, tk_after0,
                   src_state, chk1, chk2, done_seen>>
    /\ UNCHANGED detectVars
    /\ ReadHistKept
    /\ GuiOnly

\* Tk runs the oldest queued _on_connect_done
GuiConnectDone ==
    /\ ~app.is_closing
    /\ tk_after0 # <<>>
    /\ LET a == Head(tk_after0)
           r == on_connect_done(app, a, future_state[a])
       IN /\ app' = r.g
          /\ src_state' = Closed(src_state, r.closed)
          /\ done_seen' = [done_seen EXCEPT ![a] = IF r.active THEN "active" ELSE "stale"]
          /\ gui_last' = [op |-> "done", attempt |-> a, active |-> r.active, prev |-> app]
          /\ gate_ticks' = IF r.g.source = a THEN 0 ELSE gate_ticks
    /\ tk_after0' = Tail(tk_after0)
    /\ UNCHANGED <<detect_var, gui_announcer, gui_now, gate_said, gate_seen>>
    /\ UNCHANGED <<event_set, executor_queue, worker, future_state, tk_timers,
                   chk1, chk2, gui_ended>>
    /\ ReadHistKept
    /\ GuiOnly

\* _on_close: cancel, close the source, shut the executor down cancelling
\* the futures still queued, destroy the Tk root (its queued callbacks and
\* timers never run)
GuiClose ==
    /\ ~app.is_closing
    /\ LET r == handle_source_error([app EXCEPT !.is_closing = TRUE])
       IN /\ app' = r.g
          /\ event_set' = event_set \cup r.set_ev
          /\ gui_ended' = gui_ended \cup r.ended
          /\ src_state' = Closed(src_state, r.closed)
    /\ future_state' = [a \in ConnectIds |->
                          IF \E i \in 1..Len(executor_queue) : executor_queue[i] = a
                          THEN "cancelled"
                          ELSE future_state[a]]
    /\ executor_queue' = <<>>
    /\ tk_after0' = <<>>
    /\ tk_timers' = <<>>
    /\ gui_last' = [op |-> "close", attempt |-> app.connect_tracker.active_attempt_id,
                    active |-> is_connecting(app.connect_tracker), prev |-> app]
    /\ UNCHANGED <<worker, chk1, chk2, done_seen>>
    /\ UNCHANGED detectVars
    /\ ReadHistKept
    /\ GuiOnly

\* the future of the running attempt completes: the executor thread goes
\* idle and the done callback queues _on_connect_done on the Tk root (on a
\* destroyed root the callback's root.after raises and nothing is queued)
WorkerFinishes(a, outcome) ==
    /\ future_state' = [future_state EXCEPT ![a] = outcome]
    /\ worker' = [attempt |-> None, pc |-> "idle"]
    /\ tk_after0' = IF app.is_closing THEN tk_after0 ELSE Append(tk_after0, a)

\* the executor's thread takes the next work item
WorkerStart ==
    /\ worker.pc = "idle"
    /\ executor_queue # <<>>
    /\ worker' = [attempt |-> Head(executor_queue), pc |-> "check1"]
    /\ executor_queue' = Tail(executor_queue)
    /\ UNCHANGED <<app, event_set, future_state, tk_after0, tk_timers, src_state,
                   chk1, chk2, gui_ended, done_seen, gui_last>>
    /\ UNCHANGED detectVars
    /\ UNCHANGED read_hist
    /\ GuiOnly

\* _connect_source_worker: the first cancel_event.is_set() test
WorkerCheck1 ==
    /\ worker.pc = "check1"
    /\ LET a == worker.attempt
       IN IF a \in event_set
          THEN /\ chk1' = [chk1 EXCEPT ![a] = "set"]
               /\ WorkerFinishes(a, "connect_cancelled")
          ELSE /\ chk1' = [chk1 EXCEPT ![a] = "clear"]
               /\ worker' = [worker EXCEPT !.pc = "build"]
               /\ UNCHANGED <<future_state, tk_after0>>
    /\ UNCHANGED <<app, event_set, executor_queue, tk_timers, src_state,
                   chk2, gui_ended, done_seen, gui_last>>
    /\ UNCHANGED detectVars
    /\ UNCHANGED read_hist
    /\ GuiOnly

\* _connect_source_worker: build_source returns a source or raises
WorkerBuild ==
    /\ worker.pc = "build"
    /\ \E ok \in BOOLEAN :
          IF ok
          THEN /\ src_state' = [src_state EXCEPT ![worker.attempt] = "open"]
               /\ worker' = [worker EXCEPT !.pc = "check2"]
               /\ UNCHANGED <<future_state, tk_after0>>
          ELSE /\ WorkerFinishes(worker.attempt, "error")
               /\ UNCHANGED src_state
    /\ UNCHANGED <<app, event_set, executor_queue, tk_timers,
                   chk1, chk2, gui_ended, done_seen, gui_last>>
    /\ UNCHANGED detectVars
    /\ UNCHANGED read_hist
    /\ GuiOnly

\* _connect_source_worker: the second cancel_event.is_set() test
WorkerCheck2 ==
    /\ worker.pc = "check2"
    /\ LET a == worker.attempt
           w == worker_after_open(a \in event_set)
       IN /\ chk2' = [chk2 EXCEPT ![a] = IF a \in event_set THEN "set" ELSE "clear"]
          /\ src_state' = [src_state EXCEPT ![a] = w.src]
          /\ WorkerFinishes(a, w.outcome)
    /\ UNCHANGED <<app, event_set, executor_queue, tk_timers,
                   chk1, gui_ended, done_seen, gui_last>>
    /\ UNCHANGED detectVars
    /\ UNCHANGED read_hist
    /\ GuiOnly

(***************************************************************************)
(* Frame sources (sources/base.py, sources/ndi_native.py,                  *)
(* sources/mock_source.py).  A backend handle (a cv2.VideoCapture, a       *)
(* cyndilib Receiver or FrameSync) is a number; the backend keeps how many *)
(* handles were created and which of them are open.  What the network and  *)
(* the libraries do (whether an open succeeds, whether a frame comes) is   *)
(* an input of each call.                                                  *)
(***************************************************************************)
\* the largest reconnect_attempts argument a source is constructed with
MaxReconnectAttempts == 3
\* the most backend reads one read() makes before read_timeout_sec is over
MaxPolls == 2
\* how many backend handles one behaviour may create
MaxHandles == 4

\* base.NDISource, ndi_native.NDISource, OpenCVCaptureSource, MockImageSource
SourceKinds == {"ndi_url", "ndi_native", "capture", "mock"}

\* no source object exists
NoSource == [kind |-> "none"]

\* a freshly allocated object, before its constructor connects
FrameSource_new(kind, reconnect_attempts) ==
    [kind |-> kind, reconnect_attempts |-> reconnect_attempts,
     cap |-> None, receiver |-> None, frame_sync |-> None]

\* max(1, int(reconnect_attempts))
clamp_attempts(reconnect_attempts) ==
    IF reconnect_attempts > 1 THEN reconnect_attempts ELSE 1

\* the backend creates a handle, open
backend_open(b) == [open |-> b.open \cup {b.n + 1}, n |-> b.n + 1]

\* release() / close() of a handle; releasing a released handle does nothing
backend_release(b, h) == [b EXCEPT !.open = @ \ {h}]

\* the outcomes of the open attempts of one _connect_with_retry call
Outs(n) == [1..n -> BOOLEAN]

\* k backend reads that gave no frame
Fails(k) == [i \in 1..k |-> "read_fail"]

\* the handles a source object refers to
Held(s) ==
    IF s = NoSource THEN {} ELSE {s.cap, s.receiver, s.frame_sync} \ {None}

\* what one _connect_with_retry call did: its opens and sleeps in order,
\* whether it raised SourceConnectError, the source and backend after it,
\* the handles the source held before it
connect_record(s, c) ==
    [trace |-> c.trace, raised |-> c.raised, s |-> c.s, b |-> c.b,
     held_before |-> Held(s)]

\* ---- base.NDISource (an OpenCV capture of an NDI URL)

\* mutant: close forgets the capture without releasing it
NDISource_close_no_release(s, b) == [s |-> [s EXCEPT !.cap = None], b |-> b]

\* close: release the capture if there is one
NDISource_close(s, b) ==
    IF s.cap # None
    THEN [s |-> [s EXCEPT !.cap = None], b |-> backend_release(b, s.cap)]
    ELSE [s |-> s, b |-> b]

\* _open_capture_once: a capture that did not open is released and
\* SourceConnectError raised; one that opened becomes _cap
open_capture_once(s, b, ok) ==
    IF ok
    THEN [s |-> [s EXCEPT !.cap = b.n + 1], b |-> backend_open(b), raised |-> FALSE]
    ELSE [s |-> s, b |-> b, raised |-> TRUE]

\* mutant: the backoff is slept after every failed attempt
backoff_after_every(attempt, reconnect_attempts) == TRUE

\* if attempt < self.reconnect_attempts: time.sleep(self.reconnect_backoff_sec)
backoff_after(attempt, reconnect_attempts) == attempt < reconnect_attempts

\* the for loop of _connect_with_retry from attempt on
RECURSIVE NDISource_connect_attempts(_, _, _, _, _)
NDISource_connect_attempts(s, b, outs, attempt, trace) ==
    IF attempt > s.reconnect_attempts
    THEN [s |-> s, b |-> b, trace |-> trace, raised |-> TRUE]
    ELSE LET o == open_capture_once(s, b, outs[attempt])
         IN IF ~o.raised
            THEN [s |-> o.s, b |-> o.b, trace |-> Append(trace, "open_ok"),
                  raised |-> FALSE]
            ELSE LET c == NDISource_close(s, b)
                     t == Append(trace, "open_fail")
                 IN NDISource_connect_attempts(
                        c.s, c.b, outs, attempt + 1,
                        IF backoff_after(attempt, s.reconnect_attempts)
                        THEN Append(t, "sleep")
                        ELSE t)

NDISource_connect_with_retry(s, b, outs) ==
    NDISource_connect_attempts(s, b, outs, 1, <<>>)

\* __init__: clamp the arguments, connect; an exception leaves no object
NDISource_init(reconnect_attempts, b, e) ==
    LET s == FrameSource_new("ndi_url", clamp_attempts(reconnect_attempts))
        c == NDISource_connect_with_retry(s, b, e.outs1)
    IN [s |-> IF c.raised THEN NoSource ELSE c.s, b |-> c.b,
        result |-> IF c.raised THEN "connect_error" ELSE "ok",
        events |-> <<IF c.raised THEN "connect_fail" ELSE "connect_ok">>,
        connects |-> <<connect_record(s, c)>>]

\* mutant: after the reconnect the error is raised without another read
NDISource_read_timed_out_no_retry(s, b, e, events, connects) ==
    LET r == NDISource_connect_with_retry(s, b, e.outs2)
    IN [s |-> r.s, b |-> r.b, result |-> "read_error",
        events |-> Append(events, IF r.raised THEN "reconnect_fail" ELSE "reconnect_ok"),
        connects |-> Append(connects, connect_record(s, r))]

\* read, after the polling loop ran into the deadline: _reconnect, then one
\* more backend read if it reconnected, else SourceReadError
NDISource_read_timed_out(s, b, e, events, connects) ==
    LET r == NDISource_connect_with_retry(s, b, e.outs2)
        ev == Append(events, IF r.raised THEN "reconnect_fail" ELSE "reconnect_ok")
        cs == Append(connects, connect_record(s, r))
    IN IF r.raised
       THEN [s |-> r.s, b |-> r.b, result |-> "read_error", events |-> ev,
             connects |-> cs]
       ELSE IF e.retry
       THEN [s |-> r.s, b |-> r.b, result |-> "frame",
             events |-> Append(ev, "read_ok"), connects |-> cs]
       ELSE [s |-> r.s, b |-> r.b, result |-> "read_error",
             events |-> Append(ev, "read_fail"), connects |-> cs]

\* read: connect if there is no capture; poll the capture until a frame
\* comes (e.got, on the e.polls-th read) or the deadline passes
NDISource_read(s, b, e) ==
    LET c == IF s.cap = None
             THEN NDISource_connect_with_retry(s, b, e.outs1)
             ELSE [s |-> s, b |-> b, trace |-> <<>>, raised |-> FALSE]
        ev == IF s.cap = None
              THEN <<IF c.raised THEN "connect_fail" ELSE "connect_ok">>
              ELSE <<>>
        cs == IF s.cap = None THEN <<connect_record(s, c)>> ELSE <<>>
    IN IF c.raised
       THEN [s |-> c.s, b |-> c.b, result |-> "connect_error", events |-> ev,
             connects |-> cs]
       ELSE IF e.got
       THEN [s |-> c.s, b |-> c.b, result |-> "frame",
             events |-> ev \o Fails(e.polls - 1) \o <<"read_ok">>, connects |-> cs]
       ELSE NDISource_read_timed_out(c.s, c.b, e, ev \o Fails(e.polls), cs)

\* ---- ndi_native.NDISource (a cyndilib receiver of a discovered source)

\* mutant: close forgets receiver and frame sync without closing them
NativeNDISource_close_no_release(s, b) ==
    [s |-> [s EXCEPT !.frame_sync = None, !.receiver = None], b |-> b]

\* close: close the frame sync, then the receiver, and forget both
NativeNDISource_close(s, b) ==
    LET b1 == IF s.frame_sync # None THEN backend_release(b, s.frame_sync) ELSE b
        b2 == IF s.receiver # None THEN backend_release(b1, s.receiver) ELSE b1
    IN [s |-> [s EXCEPT !.frame_sync = None, !.receiver = None], b |-> b2]

\* _connect_once: discovery finds no matching source (SourceConnectError),
\* or a receiver is created and connected and, where cyndilib has FrameSync,
\* a frame sync is created on it
connect_once(s, b, ok, has_frame_sync) ==
    IF ~ok
    THEN [s |-> s, b |-> b, raised |-> TRUE]
    ELSE LET b1 == backend_open(b)
         IN IF has_frame_sync
            THEN [s |-> [s EXCEPT !.receiver = b1.n, !.frame_sync = b1.n + 1],
                  b |-> backend_open(b1), raised |-> FALSE]
            ELSE [s |-> [s EXCEPT !.receiver = b1.n], b |-> b1, raised |-> FALSE]

\* the for loop of _connect_with_retry from attempt on
RECURSIVE NativeNDISource_connect_attempts(_, _, _, _, _, _)
NativeNDISource_connect_attempts(s, b, outs, has_frame_sync, attempt, trace) ==
    IF attempt > s.reconnect_attempts
    THEN [s |-> s, b |-> b, trace |-> trace, raised |-> TRUE]
    ELSE LET o == connect_once(s, b, outs[attempt], has_frame_sync)
         IN IF ~o.raised
            THEN [s |-> o.s, b |-> o.b, trace |-> Append(trace, "open_ok"),
                  raised |-> FALSE]
            ELSE LET c == NativeNDISource_close(s, b)
                     t == Append(trace, "open_fail")
                 IN NativeNDISource_connect_attempts(
                        c.s, c.b, outs, has_frame_sync, attempt + 1,
                        IF attempt < s.reconnect_attempts
                        THEN Append(t, "sleep")
                        ELSE t)

NativeNDISource_connect_with_retry(s, b, outs, has_frame_sync) ==
    NativeNDISource_connect_attempts(s, b, outs, has_frame_sync, 1, <<>>)

\* __init__: clamp the arguments, _initialize_ndi (e.ok), connect
NativeNDISource_init(reconnect_attempts, b, e, has_frame_sync) ==
    LET s == FrameSource_new("ndi_native", clamp_attempts(reconnect_attempts))
        c == NativeNDISource_connect_with_retry(s, b, e.outs1, has_frame_sync)
    IN IF ~e.ok
       THEN [s |-> NoSource, b |-> b, result |-> "connect_error", events |-> <<>>,
             connects |-> <<>>]
       ELSE [s |-> IF c.raised THEN NoSource ELSE c.s, b |-> c.b,
             result |-> IF c.raised THEN "connect_error" ELSE "ok",
             events |-> <<IF c.raised THEN "connect_fail" ELSE "connect_ok">>,
             connects |-> <<connect_record(s, c)>>]

\* read: connect if there is no receiver; capture one video frame;
\* SourceReadError if none came
NativeNDISource_read(s, b, e, has_frame_sync) ==
    LET c == IF s.receiver = None
             THEN NativeNDISource_connect_with_retry(s, b, e.outs1, has_frame_sync)
             ELSE [s |-> s, b |-> b, trace |-> <<>>, raised |-> FALSE]
        ev == IF s.receiver = None
              THEN <<IF c.raised THEN "connect_fail" ELSE "connect_ok">>
              ELSE <<>>
        cs == IF s.receiver = None THEN <<connect_record(s, c)>> ELSE <<>>
    IN IF c.raised
       THEN [s |-> c.s, b |-> c.b, result |-> "connect_error", events |-> ev,
             connects |-> cs]
       ELSE IF e.got
       THEN [s |-> c.s, b |-> c.b, result |-> "frame",
             events |-> Append(ev, "read_ok"), connects |-> cs]
       ELSE [s |-> c.s, b |-> c.b, result |-> "read_error",
             events |-> Append(ev, "read_fail"), connects |-> cs]

\* ---- OpenCVCaptureSource

\* __init__: RuntimeError if the capture did not open
OpenCVCaptureSource_init(b, e) ==
    IF e.ok
    THEN [s |-> [FrameSource_new("capture", None) EXCEPT !.cap = b.n + 1],
          b |-> backend_open(b), result |-> "ok", events |-> <<>>, connects |-> <<>>]
    ELSE [s |-> NoSource, b |-> b, result |-> "error", events |-> <<>>,
          connects |-> <<>>]

\* read: one backend read; None if it gave no frame (a released capture
\* gives none)
OpenCVCaptureSource_read(s, b, e) ==
    IF e.got /\ s.cap \in b.open
    THEN [s |-> s, b |-> b, result |-> "frame", events |-> <<"read_ok">>,
          connects |-> <<>>]
    ELSE [s |-> s, b |-> b, result |-> "none", events |-> <<"read_fail">>,
          connects |-> <<>>]

\* close: self._cap.release()
OpenCVCaptureSource_close(s, b) == [s |-> s, b |-> backend_release(b, s.cap)]

\* ---- MockImageSource

\* __init__: FileNotFoundError if the image cannot be read
MockImageSource_init(b, e) ==
    [s |-> IF e.ok THEN FrameSource_new("mock", None) ELSE NoSource, b |-> b,
     result |-> IF e.ok THEN "ok" ELSE "error", events |-> <<>>, connects |-> <<>>]

\* read: a copy of the image
MockImageSource_read(s, b, e) ==
    [s |-> s, b |-> b, result |-> "frame", events |-> <<>>, connects |-> <<>>]

\* ---- the calls on a source, dispatched on its class

\* the constructor of the class cfg names
FrameSource_init(cfg, b, e) ==
    CASE cfg.kind = "ndi_url" -> NDISource_init(cfg.requested, b, e)
      [] cfg.kind = "ndi_native" ->
             NativeNDISource_init(cfg.requested, b, e, cfg.has_frame_sync)
      [] cfg.kind = "capture" -> OpenCVCaptureSource_init(b, e)
      [] cfg.kind = "mock" -> MockImageSource_init(b, e)

\* source.read()
FrameSource_read(s, b, e, cfg) ==
    CASE s.kind = "ndi_url" -> NDISource_read(s, b, e)
      [] s.kind = "ndi_native" -> NativeNDISource_read(s, b, e, cfg.has_frame_sync)
      [] s.kind = "capture" -> OpenCVCaptureSource_read(s, b, e)
      [] s.kind = "mock" -> MockImageSource_read(s, b, e)

\* source.close(); MockImageSource inherits FrameSource.close, which does
\* nothing
FrameSource_close(s, b) ==
    CASE s.kind = "ndi_url" -> NDISource_close(s, b)
      [] s.kind = "ndi_native" -> NativeNDISource_close(s, b)
      [] s.kind = "capture" -> OpenCVCaptureSource_close(s, b)
      [] s.kind = "mock" -> [s |-> s, b |-> b]

\* the inputs of one call: the outcomes of the opens of its connect
\* (outs1) and of its reconnect (outs2), the number of polls, whether a
\* frame came in time (got), whether the read after the reconnect gave a
\* frame (retry), whether the library or file was usable (ok)
CallInput(outs1, polls, got, outs2, retry, ok) ==
    [outs1 |-> outs1, polls |-> polls, got |-> got, outs2 |-> outs2,
     retry |-> retry, ok |-> ok]

\* the inputs a read() of s looks at: the opens of a connect only if s
\* has to connect, the polls only if s polls, the opens of a reconnect only
\* if s reconnects after a read without a frame
ConnectOuts(s) ==
    IF \/ s.kind = "ndi_url" /\ s.cap = None
       \/ s.kind = "ndi_native" /\ s.receiver = None
    THEN Outs(s.reconnect_attempts)
    ELSE {[i \in 1..1 |-> FALSE]}

PollCounts(s) == IF s.kind = "ndi_url" THEN 1..MaxPolls ELSE {1}

ReconnectOuts(s, got) ==
    IF s.kind = "ndi_url" /\ ~got
    THEN Outs(s.reconnect_attempts)
    ELSE {[i \in 1..1 |-> FALSE]}

\* the state of the source variables before any source is built
SourceIdle ==
    /\ src_cfg = [kind |-> "mock", requested |-> 0, has_frame_sync |-> FALSE]
    /\ frame_source = NoSource
    /\ backend = [open |-> {}, n |-> 0]
    /\ src_last = [op |-> "none", prev_op |-> "none", result |-> "ok",
                   events |-> <<>>, connects |-> <<>>,
                   before |-> [s |-> NoSource, b |-> [open |-> {}, n |-> 0]]]

\* what a call leaves in src_last
CallRecord(op, r) ==
    [op |-> op, prev_op |-> src_last.op, result |-> r.result, events |-> r.events,
     connects |-> r.connects, before |-> [s |-> frame_source, b |-> backend]]

\* the constructor is called (again after it raised: a new object)
SourceConstruct ==
    /\ frame_source = NoSource
    /\ backend.n + 2 <= MaxHandles
    /\ \E outs1 \in Outs(clamp_attempts(src_cfg.requested)), ok \in BOOLEAN :
          LET r == FrameSource_init(src_cfg, backend,
                                    CallInput(outs1, 1, FALSE, outs1, FALSE, ok))
          IN /\ frame_source' = r.s
             /\ backend' = r.b
             /\ src_last' = CallRecord("init", r)
    /\ UNCHANGED src_cfg
    /\ SourceOnly

\* read() is called
SourceRead ==
    /\ frame_source # NoSource
    /\ backend.n + 2 <= MaxHandles
    /\ \E outs1 \in ConnectOuts(frame_source), got \in BOOLEAN :
       \E polls \in PollCounts(frame_source),
          outs2 \in ReconnectOuts(frame_source, got),
          retry \in (IF got THEN {FALSE} ELSE BOOLEAN) :
          LET r == FrameSource_read(frame_source, backend,
                                    CallInput(outs1, polls, got, outs2, retry, TRUE),
                                    src_cfg)
          IN /\ frame_source' = r.s
             /\ backend' = r.b
             /\ src_last' = CallRecord("read", r)
    /\ UNCHANGED src_cfg
    /\ SourceOnly

\* close() is called
SourceClose ==
    /\ frame_source # NoSource
    /\ LET r == FrameSource_close(frame_source, backend)
       IN /\ frame_source' = r.s
          /\ backend' = r.b
          /\ src_last' = CallRecord("close", [result |-> "ok", events |-> <<>>,
                                              connects |-> <<>>])
    /\ UNCHANGED src_cfg
    /\ SourceOnly

(***************************************************************************)
(* build_source and the handshake probe (source_factory.py,                *)
(* ndi_handshake.py).  build_source blocks in run_ndi_probe_in_subprocess, *)
(* which starts a helper process and waits for it with bounded joins; the  *)
(* helper runs concurrently, so the call is cut at the points where the    *)
(* caller looks at the helper: the two is_alive() tests and the return.    *)
(* A join(timeout) has no effect of its own, it only delays the test that  *)
(* follows it; terminate() and kill() only send a signal.                  *)
(***************************************************************************)
\* normalized_mode values; "other" stands for every unsupported mode
SourceModes == {"mock", "ndi", "capture", "other"}

\* probe_ndi_handshake, the discovery and connect sequence the helper runs:
\* it returns the selected source, raises, or blocks for ever
probe_ndi_handshake == {"returns", "raises", "hangs"}

\* what the helper's target does when left alone: the handshake's outcome,
\* or "crash" when the process ends without putting a payload (the import
\* at the head of the worker fails, the process dies)
WorkerOutcomes == probe_ndi_handshake \cup {"crash"}

FactoryEnvs ==
    [mode : SourceModes,
     source_empty : BOOLEAN,        \* source_text.strip() is empty
     backend_module : BOOLEAN,      \* check_ndi_backend_module_available()
     runtime : BOOLEAN,             \* check_ndi_runtime_available()
     construct_ok : BOOLEAN,        \* the source class constructor returns
     outcome : WorkerOutcomes,
     ignores_term : BOOLEAN]        \* the helper survives SIGTERM

NoResult == [kind |-> "none"]

Factory_idle == [pc |-> "idle", steps |-> <<>>, result |-> NoResult]

Probe_idle ==
    [pc |-> "idle", alive1 |-> FALSE, alive2 |-> FALSE,
     term_sent |-> FALSE, kill_sent |-> FALSE, result |-> NoResult]

Proc_idle == [state |-> "unstarted", queue |-> <<>>, put_done |-> FALSE]

FactoryIdle ==
    /\ factory_env = [mode |-> "other", source_empty |-> TRUE,
                      backend_module |-> FALSE, runtime |-> FALSE,
                      construct_ok |-> FALSE, outcome |-> "crash",
                      ignores_term |-> FALSE]
    /\ factory = Factory_idle
    /\ probe = Probe_idle
    /\ probe_proc = Proc_idle

SourceFactoryError(code) == [kind |-> "SourceFactoryError", code |-> code]

Built(class) == [kind |-> "source", class |-> class]

\* an exception of a constructor that build_source does not wrap
Raised(class) == [kind |-> "exception", class |-> class]

NDIProbeResult(ok, timed_out, worker_terminated) ==
    [kind |-> "NDIProbeResult", ok |-> ok, timed_out |-> timed_out,
     worker_terminated |-> worker_terminated]

\* parse_ndi_probe_payload: ok is bool(data.get("ok")), the two flags keep
\* their defaults
parse_ndi_probe_payload(payload) == NDIProbeResult(payload.ok, FALSE, FALSE)

\* _ndi_probe_worker's two put() calls
worker_payload(outcome) == [ok |-> outcome = "returns", from |-> "worker"]

payload_when_empty_ok == [ok |-> TRUE, from |-> "caller"]

\* the payload the caller makes up when get_nowait() raises Empty
payload_when_empty == [ok |-> FALSE, from |-> "caller"]

\* the result returned on the timeout path
timeout_result == NDIProbeResult(FALSE, TRUE, TRUE)

\* the checks of build_source that come before the probe, in the order
\* they run: the steps run and the error raised ("" if none)
ndi_prechecks(env) ==
    IF env.source_empty
    THEN [steps |-> <<"empty_source">>, code |-> "empty_source"]
    ELSE IF ~env.backend_module
    THEN [steps |-> <<"empty_source", "backend_module">>,
          code |-> "ndi_backend_missing"]
    ELSE IF ~env.runtime
    THEN [steps |-> <<"empty_source", "backend_module", "runtime">>,
          code |-> "ndi_runtime_missing"]
    ELSE [steps |-> <<"empty_source", "backend_module", "runtime">>,
          code |-> ""]

after_probe_construct_first(env, p) ==
    IF ~env.construct_ok
    THEN [steps |-> <<"construct">>,
          result |-> SourceFactoryError("ndi_connect_failed")]
    ELSE [steps |-> <<"construct">>, result |-> Built("NDISource")]

\* build_source from the probe's return on
after_probe(env, p) ==
    IF ~p.ok
    THEN [steps |-> <<>>,
          result |-> SourceFactoryError(IF p.timed_out
                                        THEN "ndi_probe_timeout"
                                        ELSE "ndi_probe_failed")]
    ELSE IF ~env.construct_ok
    THEN [steps |-> <<"construct">>,
          result |-> SourceFactoryError("ndi_connect_failed")]
    ELSE [steps |-> <<"construct">>, result |-> Built("NDISource")]

\* build_source for the modes without a probe
build_source_local(env) ==
    IF env.mode \notin {"mock", "ndi", "capture"}
    THEN [steps |-> <<>>, result |-> SourceFactoryError("bad_mode")]
    ELSE IF env.source_empty
    THEN [steps |-> <<"empty_source">>,
          result |-> SourceFactoryError("empty_source")]
    ELSE IF env.mode = "mock"
    THEN [steps |-> <<"empty_source", "construct">>,
          result |-> IF env.construct_ok THEN Built("MockImageSource")
                     ELSE Raised("MockImageSource")]
    ELSE [steps |-> <<"empty_source", "construct">>,
          result |-> IF env.construct_ok THEN Built("OpenCVCaptureSource")
                     ELSE SourceFactoryError("capture_open_failed")]

\* build_source up to the point where it blocks in the probe (ndi mode with
\* every precheck passed: process.start() has run), or to its end
BuildSourceBegin ==
    /\ factory.pc = "idle"
    /\ \E env \in FactoryEnvs :
        /\ factory_env' = env
        /\ IF env.mode = "ndi"
           THEN LET pre == ndi_prechecks(env) IN
                IF pre.code # ""
                THEN /\ factory' = [pc |-> "done", steps |-> pre.steps,
                                    result |-> SourceFactoryError(pre.code)]
                     /\ UNCHANGED <<probe, probe_proc>>
                ELSE /\ factory' = [pc |-> "probing",
                                    steps |-> Append(pre.steps, "probe"),
                                    result |-> NoResult]
                     /\ probe' = [Probe_idle EXCEPT !.pc = "join"]
                     /\ probe_proc' = [Proc_idle EXCEPT !.state = "running"]
           ELSE LET r == build_source_local(env) IN
                /\ factory' = [pc |-> "done", steps |-> r.steps,
                               result |-> r.result]
                /\ UNCHANGED <<probe, probe_proc>>
    /\ FactoryOnly

\* the helper puts its payload
WorkerPut ==
    /\ probe_proc.state = "running"
    /\ factory_env.outcome \in {"returns", "raises"}
    /\ ~probe_proc.put_done
    /\ probe_proc' = [probe_proc EXCEPT
                        !.queue = <<worker_payload(factory_env.outcome)>>,
                        !.put_done = TRUE]
    /\ UNCHANGED <<factory_env, factory, probe>>
    /\ FactoryOnly

\* the helper ends by itself: after its put, or without one
WorkerExit ==
    /\ probe_proc.state = "running"
    /\ \/ probe_proc.put_done
       \/ factory_env.outcome = "crash"
    /\ probe_proc' = [probe_proc EXCEPT !.state = "exited"]
    /\ UNCHANGED <<factory_env, factory, probe>>
    /\ FactoryOnly

\* the helper dies of the SIGTERM of terminate()
WorkerTerminated ==
    /\ probe_proc.state = "running"
    /\ probe.term_sent
    /\ ~factory_env.ignores_term
    /\ probe_proc' = [probe_proc EXCEPT !.state = "exited"]
    /\ UNCHANGED <<factory_env, factory, probe>>
    /\ FactoryOnly

\* the helper dies of the SIGKILL of kill()
WorkerKilled ==
    /\ probe_proc.state = "running"
    /\ probe.kill_sent
    /\ probe_proc' = [probe_proc EXCEPT !.state = "exited"]
    /\ UNCHANGED <<factory_env, factory, probe>>
    /\ FactoryOnly

\* the first join is over: is_alive(), then terminate() or the queue
ProbeFirstCheck ==
    /\ probe.pc = "join"
    /\ IF probe_proc.state = "running"
       THEN /\ probe' = [probe EXCEPT !.pc = "join_term", !.alive1 = TRUE,
                                      !.term_sent = TRUE]
            /\ UNCHANGED probe_proc
       ELSE LET payload == IF probe_proc.queue = <<>>
                           THEN payload_when_empty
                           ELSE Head(probe_proc.queue) IN
            /\ probe' = [probe EXCEPT
                            !.pc = "returned",
                            !.result = parse_ndi_probe_payload(payload)]
            /\ probe_proc' = [probe_proc EXCEPT !.queue = <<>>]
    /\ UNCHANGED <<factory_env, factory>>
    /\ FactoryOnly

\* the join after terminate() is over: is_alive(), then kill() or return
ProbeSecondCheck ==
    /\ probe.pc = "join_term"
    /\ IF probe_proc.state = "running"
       THEN probe' = [probe EXCEPT !.pc = "join_kill", !.alive2 = TRUE,
                                   !.kill_sent = TRUE]
       ELSE probe' = [probe EXCEPT !.pc = "returned",
                                   !.result = timeout_result]
    /\ UNCHANGED <<factory_env, factory, probe_proc>>
    /\ FactoryOnly

\* the join after kill() is over: return
ProbeReturnAfterKill ==
    /\ probe.pc = "join_kill"
    /\ probe' = [probe EXCEPT !.pc = "returned", !.result = timeout_result]
    /\ UNCHANGED <<factory_env, factory, probe_proc>>
    /\ FactoryOnly

\* build_source goes on with the probe's result
BuildSourceEnd ==
    /\ factory.pc = "probing"
    /\ probe.pc = "returned"
    /\ LET r == after_probe(factory_env, probe.result) IN
       factory' = [pc |-> "done", steps |-> factory.steps \o r.steps,
                   result |-> r.result]
    /\ UNCHANGED <<factory_env, probe, probe_proc>>
    /\ FactoryOnly

(***************************************************************************)
(* select_best_ndi_source (sources/ndi_native.py).  A str is the sequence  *)
(* of its characters; an NDISourceInfo is its name; the function's result  *)
(* is the position of the returned source in the discovered list, 0 for    *)
(* None.                                                                   *)
(***************************************************************************)
MaxSources == 2

NotCalled == [kind |-> "not_called"]

\* str.casefold() and str.lower() on the characters the model uses
lower_char(c) ==
    CASE c = "O" -> "o"
      [] c = "B" -> "b"
      [] c = "S" -> "s"
      [] c = "P" -> "p"
      [] c = "C" -> "c"
      [] c = "N" -> "n"
      [] c = "D" -> "d"
      [] c = "I" -> "i"
      [] OTHER -> c

casefold(s) == [i \in 1..Len(s) |-> lower_char(s[i])]

RECURSIVE lstrip(_)
lstrip(s) ==
    IF s # <<>> /\ Head(s) = " " THEN lstrip(Tail(s)) ELSE s

RECURSIVE rstrip(_)
rstrip(s) ==
    IF s # <<>> /\ s[Len(s)] = " "
    THEN rstrip(SubSeq(s, 1, Len(s) - 1)) ELSE s

\* str.strip()
strip(s) == rstrip(lstrip(s))

\* str.startswith(prefix)
startswith(s, prefix) ==
    Len(prefix) <= Len(s) /\ SubSeq(s, 1, Len(prefix)) = prefix

\* str.find(sub) + 1: where sub first occurs in s, 0 if nowhere
find(s, sub) ==
    LET at == {i \in 1..(Len(s) - Len(sub) + 1) :
                  SubSeq(s, i, i + Len(sub) - 1) = sub} IN
    IF at = {} THEN 0 ELSE CHOOSE i \in at : \A j \in at : i <= j

\* sub in s
contains(s, sub) == find(s, sub) # 0

\* str.split(sep): the parts between the occurrences of sep, empty ones kept
RECURSIVE split(_, _)
split(s, sep) ==
    LET i == find(s, sep) IN
    IF i = 0 THEN <<s>>
    ELSE <<SubSeq(s, 1, i - 1)>> \o split(SubSeq(s, i + Len(sep), Len(s)), sep)

\* list(dict.fromkeys(items)): the first occurrence of each item, in order
RECURSIVE dedupe(_)
dedupe(items) ==
    IF items = <<>> THEN <<>>
    ELSE LET r == dedupe(SubSeq(items, 1, Len(items) - 1))
             x == items[Len(items)] IN
         IF \E i \in 1..Len(r) : r[i] = x THEN r ELSE Append(r, x)

ndi_scheme == <<"n", "d", "i", ":", "/", "/">>

normalize_requested_source_text(source_text) ==
    LET raw == strip(source_text) IN
    IF startswith(casefold(raw), ndi_scheme)
    THEN strip(SubSeq(raw, Len(ndi_scheme) + 1, Len(raw)))
    ELSE raw

\* the parts of name.split(" - ") that are not blank, stripped
dash_parts(name) ==
    LET parts == split(name, <<" ", "-", " ">>)
        kept == SelectSeq(parts, LAMBDA p : strip(p) # <<>>) IN
    [i \in 1..Len(kept) |-> strip(kept[i])]

\* _aliases(info)
aliases(info) ==
    LET name == strip(info) IN
    IF name = <<>> THEN <<>>
    ELSE dedupe(<<name>>
                \o (IF contains(name, <<"(">>) /\ name[Len(name)] = ")"
                    THEN <<strip(SubSeq(name, 1, find(name, <<"(">>) - 1))>>
                    ELSE <<>>)
                \o (IF contains(name, <<" ", "-", " ">>)
                    THEN dash_parts(name) ELSE <<>>))

\* the first source one of whose aliases satisfies Test, 0 if there is none
first_source(discovered, Test(_)) ==
    LET hits == {i \in 1..Len(discovered) :
                    \E k \in 1..Len(aliases(discovered[i])) :
                        Test(aliases(discovered[i])[k])} IN
    IF hits = {} THEN 0 ELSE CHOOSE i \in hits : \A j \in hits : i <= j

alias_contains_one_way(alias_l, normalized_l) == contains(alias_l, normalized_l)

\* the test of the second loop
alias_contains(alias_l, normalized_l) ==
    contains(alias_l, normalized_l) \/ contains(normalized_l, alias_l)

\* the first loop: an alias equal to the requested name, case aside
exact_pass(discovered, normalized_l) ==
    first_source(discovered, LAMBDA a : casefold(a) = normalized_l)

\* the second loop: an alias containing the requested name or contained in it
contains_pass(discovered, normalized_l) ==
    first_source(discovered,
                 LAMBDA a : alias_contains(casefold(a), normalized_l))

select_best_substring_first(source_text, discovered) ==
    LET normalized == normalize_requested_source_text(source_text)
        normalized_l == casefold(normalized) IN
    IF discovered = <<>> THEN 0
    ELSE IF normalized = <<>> THEN 1
    ELSE IF contains_pass(discovered, normalized_l) # 0
    THEN contains_pass(discovered, normalized_l)
    ELSE exact_pass(discovered, normalized_l)

select_best_ndi_source(source_text, discovered) ==
    LET normalized == normalize_requested_source_text(source_text)
        normalized_l == casefold(normalized) IN
    IF discovered = <<>> THEN 0
    ELSE IF normalized = <<>> THEN 1
    ELSE IF exact_pass(discovered, normalized_l) # 0
    THEN exact_pass(discovered, normalized_l)
    ELSE contains_pass(discovered, normalized_l)

\* the names a discovery can report, and the texts a user can ask for
SourceNames ==
    { <<"O", "B", "S">>,                                    \* OBS
      <<"o", "b", "s">>,                                    \* obs
      <<"O", "B", "S", " ", "(", "P", "C", ")">>,           \* OBS (PC)
      <<"P", "C", " ", "-", " ", "O", "B", "S">>,           \* PC - OBS
      <<"O", "B", "S", "x">>,                               \* OBSx
      <<"B">>,                                              \* B
      <<"(", "P", "C", ")">>,                               \* (PC)
      <<"c", "a", "m">>,                                    \* cam
      <<" ">>,                                              \* a blank name
      <<>> }                                                \* no name

RequestedTexts ==
    { <<"o", "b", "s">>,                                    \* obs
      <<"O", "B", "S">>,                                    \* OBS
      <<"N", "D", "I", ":", "/", "/", "O", "b", "s", " ">>, \* NDI://Obs_
      <<" ", "P", "C">>,                                    \* _PC
      <<"z">>,                                              \* z
      <<"n", "d", "i", ":", "/", "/", " ">>,                \* ndi://_
      <<>> }                                                \* empty

DiscoveredLists ==
    UNION {[1..n -> SourceNames] : n \in 0..MaxSources}

SelectIdle ==
    /\ sel_in = [discovered |-> <<>>, requested |-> <<>>]
    /\ sel_out = NotCalled

\* one call of select_best_ndi_source
SelectCall ==
    /\ sel_out = NotCalled
    /\ sel_out' = [kind |-> "returned",
                   index |-> select_best_ndi_source(sel_in.requested,
                                                    sel_in.discovered)]
    /\ UNCHANGED sel_in
    /\ SelectOnly

(***************************************************************************)
(* FrameClock (frame_clock.py).  Time is time.monotonic() in whole units;  *)
(* _interval = 1 / fps is a whole number of units.  time.sleep(d) suspends *)
(* for at least d and may suspend longer.                                  *)
(***************************************************************************)
MaxInterval == 2
MaxTime == 6
MaxOversleep == 1

Max(a, b) == IF a >= b THEN a ELSE b

\* __post_init__ at time now with 1 / fps = interval
FrameClock_init(interval, now) == [interval |-> interval, next_tick |-> now]

FrameClock_tick_no_sleep(c, now, woke) ==
    [clock |-> [c EXCEPT !.next_tick = Max(c.next_tick + c.interval, now)],
     slept |-> now < c.next_tick,
     returned |-> now]

\* tick() entered at time now; woke is the time at which its sleep, if it
\* sleeps, is over: the clock after the call and the time of its return
FrameClock_tick(c, now, woke) ==
    LET after_sleep == IF now < c.next_tick THEN woke ELSE now IN
    [clock |-> [c EXCEPT !.next_tick =
                    Max(c.next_tick + c.interval, after_sleep)],
     slept |-> now < c.next_tick,
     returned |-> after_sleep]

ClockIdle ==
    /\ clock = FrameClock_init(1, 0)
    /\ clock_time = 0
    /\ clock_hist = <<>>

\* the caller does something else for one unit of time
ClockTimePasses ==
    /\ clock_time < MaxTime
    /\ clock_time' = clock_time + 1
    /\ UNCHANGED <<clock, clock_hist>>
    /\ ClockOnly

\* one tick() call, from entry to return
ClockTick ==
    /\ \E late \in 0..MaxOversleep :
        LET woke == clock.next_tick + late
            r == FrameClock_tick(clock, clock_time, woke) IN
        /\ r.returned <= MaxTime
        /\ ~r.slept => late = 0
        /\ clock' = r.clock
        /\ clock_time' = r.returned
        /\ clock_hist' =
              LET call == [entered |-> clock_time,
                           deadline |-> clock.next_tick,
                           returned |-> r.returned,
                           next_tick |-> r.clock.next_tick,
                           \* every call so far came before its deadline
                           \* (the first one: no later than it)
                           on_time |-> /\ clock_time <= clock.next_tick
                                       /\ clock_hist # <<>>
                                             => clock_time < clock.next_tick
                                       /\ \A i \in 1..Len(clock_hist) :
                                             clock_hist[i].on_time] IN
              IF clock_hist = <<>> THEN <<call>>
              ELSE <<clock_hist[Len(clock_hist)], call>>
    /\ ClockOnly

(***************************************************************************)
(* CalloutMapper (callout_mapper.py).  A coordinate is a whole number of   *)
(* units of 2^-10, so every product of two coordinate differences is a     *)
(* whole multiple of 2^-20 and is exact in floating point.  2^-20 is just  *)
(* below the 1e-6 of _point_on_segment: a cross product of one unit        *)
(* passes its test, one of two units does not.                             *)
(***************************************************************************)
GridMax == 2
MaxRegions == 2

\* abs(cross) > 1e-6, in units of 2^-20
cross_tolerance == 1

Abs(v) == IF v < 0 THEN -v ELSE v

GridPoints == (0..GridMax) \X (0..GridMax)

point_on_segment_never(p, a, b) == FALSE

\* _point_on_segment(p, a, b)
point_on_segment(p, a, b) ==
    LET cross == (p[1] - a[1]) * (b[2] - a[2]) - (p[2] - a[2]) * (b[1] - a[1])
        dot == (p[1] - a[1]) * (b[1] - a[1]) + (p[2] - a[2]) * (b[2] - a[2])
        length_sq == (b[1] - a[1]) * (b[1] - a[1])
                     + (b[2] - a[2]) * (b[2] - a[2]) IN
    IF Abs(cross) > cross_tolerance THEN FALSE
    ELSE IF dot < 0 THEN FALSE
    ELSE dot <= length_sq

\* (y1 > y) != (y2 > y)
intersects(p, a, b) == (a[2] > p[2]) # (b[2] > p[2])

\* xin >= x for xin = (x2 - x1) * (y - y1) / (y2 - y1 + 1e-12) + x1, with
\* y1 # y2.  Without the 1e-12 this is num / den >= k for the whole numbers
\* num = (x2 - x1) * (y - y1), den = y2 - y1, k = x - x1.  The 1e-12 makes
\* a positive den larger and a negative one smaller in size by a part in
\* 10^9: far too little to change the comparison unless num = den * k,
\* and enough to decide it then.
xin_ge_x(p, a, b) ==
    LET num == (b[1] - a[1]) * (p[2] - a[2])
        den == b[2] - a[2]
        k == p[1] - a[1] IN
    IF den > 0
    THEN num > den * k \/ (num = den * k /\ k <= 0)
    ELSE num < den * k \/ (num = den * k /\ k >= 0)

\* the loop of point_in_polygon from edge i on, inside being its flag
RECURSIVE point_in_polygon_from(_, _, _, _)
point_in_polygon_from(point, polygon, i, inside) ==
    IF i > Len(polygon) THEN inside
    ELSE LET a == polygon[i]
             b == polygon[(i % Len(polygon)) + 1] IN
         IF point_on_segment(point, a, b) THEN TRUE
         ELSE point_in_polygon_from(
                  point, polygon, i + 1,
                  IF intersects(point, a, b) /\ xin_ge_x(point, a, b)
                  THEN ~inside ELSE inside)

point_in_polygon(point, polygon) ==
    IF Len(polygon) < 3 THEN FALSE
    ELSE point_in_polygon_from(point, polygon, 1, FALSE)

RECURSIVE map_point_last(_, _)
map_point_last(regions, point) ==
    IF regions = <<>> THEN NoCallout
    ELSE IF point_in_polygon(point, regions[Len(regions)].polygon)
    THEN regions[Len(regions)].name
    ELSE map_point_last(SubSeq(regions, 1, Len(regions) - 1), point)

\* CalloutMapper.map_point: the name returned, NoCallout for None
RECURSIVE map_point(_, _)
map_point(regions, point) ==
    IF regions = <<>> THEN NoCallout
    ELSE IF point_in_polygon(point, Head(regions).polygon)
    THEN Head(regions).name
    ELSE map_point(Tail(regions), point)

\* the polygons of the model: every list of up to three grid points, and
\* some with more vertices
Square == <<<<0, 0>>, <<GridMax, 0>>, <<GridMax, GridMax>>, <<0, GridMax>>>>

\* a square given as a closed ring: the last vertex repeats the first
ClosedSquare == <<<<0, 0>>, <<1, 0>>, <<1, 1>>, <<0, 1>>, <<0, 0>>>>

Bowtie == <<<<0, 0>>, <<GridMax, GridMax>>, <<GridMax, 0>>, <<0, GridMax>>>>

Notched ==
    <<<<0, 0>>, <<GridMax, 0>>, <<1, 1>>, <<GridMax, GridMax>>, <<0, GridMax>>>>

LargerPolygons == {Square, ClosedSquare, Bowtie, Notched}

Polygons ==
    UNION {[1..n -> GridPoints] : n \in 0..3} \cup LargerPolygons

\* the polygons of the mappers with several regions
OverlappingPolygons ==
    { Square,
      <<<<0, 0>>, <<1, 0>>, <<1, 1>>, <<0, 1>>>>,
      <<<<0, 0>>, <<GridMax, 0>>, <<0, GridMax>>>>,
      <<<<0, 0>>, <<GridMax, 1>>, <<1, GridMax>>>>,
      <<<<0, 0>>, <<GridMax, GridMax>>>> }

RegionNames == <<"A Site", "B Site", "Mid", "Long">>

\* Region(name, polygon) for each polygon, named by position
Regions_of(polygons) ==
    [i \in 1..Len(polygons) |->
        [name |-> RegionNames[i], polygon |-> polygons[i]]]

RegionLists ==
    {Regions_of(ps) : ps \in [1..1 -> Polygons]}
    \cup {Regions_of(ps) :
            ps \in UNION {[1..n -> OverlappingPolygons] : n \in 0..MaxRegions}}

MapperIdle ==
    /\ mapper = [regions |-> <<>>]
    /\ map_in = <<0, 0>>
    /\ map_out = NotCalled

\* mapper.map_point(point)
MapPoint ==
    /\ map_out = NotCalled
    /\ map_out' = [op |-> "map_point",
                   ret |-> map_point(mapper.regions, map_in),
                   regions_before |-> mapper.regions]
    /\ UNCHANGED <<mapper, map_in>>
    /\ MapperOnly

\* point_in_polygon(point, region.polygon) for one of the mapper's regions
PolygonTest ==
    /\ map_out = NotCalled
    /\ \E i \in 1..Len(mapper.regions) :
        map_out' = [op |-> "point_in_polygon",
                    region |-> i,
                    ret |-> point_in_polygon(map_in,
                                             mapper.regions[i].polygon)]
    /\ UNCHANGED <<mapper, map_in>>
    /\ MapperOnly

(***************************************************************************)
(* Pipeline.run (pipeline.py).  The source, the detector, the mapper, the  *)
(* announcer and the clock are the objects the Pipeline was given; run     *)
(* only calls them, so each call is recorded with what it was given or     *)
(* what it returned.  One action is one pass of the while loop.            *)
(***************************************************************************)
MaxFrames == 2

\* the max_frames arguments: None, or an int
MaxFramesArgs == {None} \cup (0..MaxFrames)

\* what one pass meets: what source.read() does and, for a frame, what the
\* detector and the mapper make of it
\*   "raise"     - read() raises
\*   "none"      - read() returns None
\*   "no_marker" - read() returns a frame, detect() returns None
\*   NoCallout   - a point is detected, map_point returns None
\*   a callout   - a point is detected, map_point returns the callout
PassInputs == {"raise", "none", "no_marker", NoCallout} \cup Callouts

Pipeline_idle == [state |-> "idle", max_frames |-> None, frames |-> 0]

PipelineIdle ==
    /\ pipeline = Pipeline_idle
    /\ pipe_ticks = <<>>

Call(op, value) == [op |-> op, value |-> value]

pass_calls_skip_gate(seen) ==
    IF seen = "raise" THEN <<Call("read", "raise")>>
    ELSE IF seen = "none" THEN <<Call("read", "None")>>
    ELSE IF seen = "no_marker"
    THEN <<Call("read", "frame"), Call("detect", "None")>>
    ELSE <<Call("read", "frame"), Call("detect", "point"),
           Call("map_point", seen), Call("process", seen)>>

\* the calls of one pass up to and including announcer.process, in order
pass_calls(seen) ==
    IF seen = "raise" THEN <<Call("read", "raise")>>
    ELSE IF seen = "none" THEN <<Call("read", "None")>>
    ELSE IF seen = "no_marker"
    THEN <<Call("read", "frame"), Call("detect", "None"),
           Call("process", NoCallout)>>
    ELSE <<Call("read", "frame"), Call("detect", "point"),
           Call("map_point", seen), Call("process", seen)>>

\* one pass of the loop of run: the Pipeline after it and the calls made
Pipeline_pass(p, seen) ==
    IF seen = "raise"
    THEN [pipeline |-> [p EXCEPT !.state = "raised"],
          calls |-> pass_calls(seen)]
    ELSE IF seen = "none"
    THEN [pipeline |-> [p EXCEPT !.state = "returned"],
          calls |-> pass_calls(seen)]
    ELSE LET frames == p.frames + 1 IN
         IF p.max_frames # None /\ frames >= p.max_frames
         THEN [pipeline |-> [p EXCEPT !.state = "returned",
                                      !.frames = frames],
               calls |-> pass_calls(seen)]
         ELSE [pipeline |-> [p EXCEPT !.frames = frames],
               calls |-> Append(pass_calls(seen), Call("clock.tick", "None"))]

\* run(max_frames) is called
PipelineRun ==
    /\ pipeline.state = "idle"
    /\ \E max_frames \in MaxFramesArgs :
        pipeline' = [state |-> "running", max_frames |-> max_frames,
                     frames |-> 0]
    /\ UNCHANGED pipe_ticks
    /\ PipelineOnly

\* one pass of the while loop
PipelinePass ==
    /\ pipeline.state = "running"
    /\ Len(pipe_ticks) <= MaxFrames
    /\ \E seen \in PassInputs :
        LET r == Pipeline_pass(pipeline, seen) IN
        /\ pipeline' = r.pipeline
        /\ pipe_ticks' = Append(pipe_ticks, r.calls)
    /\ PipelineOnly

(***************************************************************************)
(* RedDotDetector.detect (detector.py) from the contours on: a contour is  *)
(* its cv2.contourArea and its cv2.moments m10 and m01; m00 of a contour   *)
(* is its area.  Areas are whole numbers of square pixels.                 *)
(***************************************************************************)
MaxContours == 2

\* the default of the min_area field
min_area == 8

MinAreas == {0, min_area}

Contours ==
    {c \in [area : {0, 6, 8, 10}, m10 : {0, 20, 22}, m01 : {0, 20, 22}] :
        c.area = 0 => (c.m10 = 0 /\ c.m01 = 0)}

ContourLists == UNION {[1..n -> Contours] : n \in 0..MaxContours}

NoPoint == <<>>

\* max(contours, key=cv2.contourArea): the first contour of largest area
max_area_contour(contours) ==
    LET i == CHOOSE i \in 1..Len(contours) :
                /\ \A j \in 1..Len(contours) :
                      contours[j].area <= contours[i].area
                /\ \A j \in 1..(i - 1) :
                      contours[j].area < contours[i].area IN
    contours[i]

\* int(a / b) for a >= 0, b > 0: the quotient with its fraction dropped
int_div(a, b) == a \div b

\* detect, from the contours found in the mask
RedDotDetector_detect(contours, min_area_field) ==
    IF contours = <<>> THEN NoPoint
    ELSE LET best == max_area_contour(contours) IN
         IF best.area < min_area_field THEN NoPoint
         ELSE IF best.area = 0 THEN NoPoint
         ELSE <<int_div(best.m10, best.area), int_div(best.m01, best.area)>>

DetectorIdle ==
    /\ det_in = [contours |-> <<>>, min_area |-> min_area]
    /\ det_out = NotCalled

\* one detect call
DetectCall ==
    /\ det_out = NotCalled
    /\ det_out' = [kind |-> "returned",
                   point |-> RedDotDetector_detect(det_in.contours,
                                                   det_in.min_area)]
    /\ UNCHANGED det_in
    /\ DetectorOnly

\* the Pipeline and the detector before any call
CoreIdle == PipelineIdle /\ DetectorIdle

\* the library components before any call
LibIdle ==
    FactoryIdle /\ SelectIdle /\ ClockIdle /\ MapperIdle /\ CoreIdle

(***************************************************************************)
(* The specifications.                                                     *)
(***************************************************************************)
TrackerNext == TrStart \/ TrFinish \/ TrCancel

TrackerInit ==
    TrackerIdle /\ AnnouncerIdle /\ GuiIdle /\ SourceIdle /\ LibIdle

TrackerSpec == TrackerInit /\ [][TrackerNext]_vars

AnnouncerInit ==
    /\ TrackerIdle
    /\ GuiIdle
    /\ SourceIdle
    /\ LibIdle
    /\ \E cooldown_sec \in 1..MaxCooldown, stable_frames \in 1..MaxStable :
          announcer = Announcer_init(cooldown_sec, stable_frames)
    /\ tts_said = <<>>
    /\ ann_ret = NoText
    /\ ann_raised = FALSE
    /\ ann_inputs = <<>>
    /\ ann_now = None
    /\ ann_mono = TRUE
    /\ ann_last_at = [c \in Callouts |-> None]
    /\ ann_gap = None
    /\ ann_prev_last = <<>>
    /\ ann_uniform = 0
    /\ ann_fail = NoFail

AnnouncerNext == AnnProcess

AnnouncerSpec == AnnouncerInit /\ [][AnnouncerNext]_vars

\* the GUI's Announcer, driven by a sink that may fail, with the failures logged
SinkFailureInit ==
    /\ TrackerIdle
    /\ GuiIdle
    /\ SourceIdle
    /\ LibIdle
    /\ announcer = GuiAnnouncer
    /\ tts_said = <<>>
    /\ ann_ret = NoText
    /\ ann_raised = FALSE
    /\ ann_inputs = <<>>
    /\ ann_now = None
    /\ ann_mono = TRUE
    /\ ann_last_at = [c \in Callouts |-> None]
    /\ ann_gap = None
    /\ ann_prev_last = <<>>
    /\ ann_uniform = 0
    /\ ann_fail = NoFail

SinkFailureNext == AnnProcessSinkLog

SinkFailureSpec == SinkFailureInit /\ [][SinkFailureNext]_vars

Init == GuiIdle /\ TrackerIdle /\ AnnouncerIdle /\ SourceIdle /\ LibIdle

Next ==
    \/ GuiConnectSource
    \/ GuiCancelConnect
    \/ GuiSourceModeChange
    \/ GuiTickFrame
    \/ GuiConnectTimeout
    \/ GuiConnectDone
    \/ GuiClose
    \/ WorkerStart
    \/ WorkerCheck1
    \/ WorkerBuild
    \/ WorkerCheck2

Spec == Init /\ [][Next]_vars

\* the GUI started with detection on; at most MaxDetectConnects connects
DetectConnectSource ==
    /\ app.connect_tracker.next_attempt_id < MaxDetectConnects
    /\ GuiConnectSource

DetectInit ==
    GuiStart(TRUE) /\ TrackerIdle /\ AnnouncerIdle /\ SourceIdle /\ LibIdle

DetectNext ==
    \/ DetectConnectSource
    \/ GuiCancelConnect
    \/ GuiSourceModeChange
    \/ GuiTickFrame
    \/ GuiConnectTimeout
    \/ GuiConnectDone
    \/ GuiClose
    \/ WorkerStart
    \/ WorkerCheck1
    \/ WorkerBuild
    \/ WorkerCheck2

DetectSpec == DetectInit /\ [][DetectNext]_vars

\* the GUI with its timers firing: Tk's main loop runs a due timer callback
\* as long as the root exists; the worker may block in build_source for ever
TimeoutConnectSource ==
    /\ app.connect_tracker.next_attempt_id < MaxTimeoutConnects
    /\ GuiConnectSource

TimeoutNext ==
    \/ TimeoutConnectSource
    \/ GuiCancelConnect
    \/ GuiSourceModeChange
    \/ GuiTickFrame
    \/ GuiConnectTimeout
    \/ GuiConnectDone
    \/ GuiClose
    \/ WorkerStart
    \/ WorkerCheck1
    \/ WorkerBuild
    \/ WorkerCheck2

TimeoutSpec == Init /\ [][TimeoutNext]_vars /\ WF_vars(GuiConnectTimeout)

\* the GUI with Tk's main loop running every queued callback and due timer,
\* and the executor's thread running its work items to their end
LiveSpec ==
    /\ Init
    /\ [][Next]_vars
    /\ WF_vars(GuiConnectTimeout)
    /\ WF_vars(GuiConnectDone)
    /\ WF_vars(WorkerStart)
    /\ WF_vars(WorkerCheck1)
    /\ WF_vars(WorkerBuild)
    /\ WF_vars(WorkerCheck2)

\* one frame source of any class, built with any reconnect_attempts, under
\* arbitrary read and close calls
SourceInit ==
    /\ TrackerIdle
    /\ AnnouncerIdle
    /\ GuiIdle
    /\ LibIdle
    /\ src_cfg \in [kind : SourceKinds, requested : 0..MaxReconnectAttempts,
                    has_frame_sync : BOOLEAN]
    /\ frame_source = NoSource
    /\ backend = [open |-> {}, n |-> 0]
    /\ src_last = [op |-> "none", prev_op |-> "none", result |-> "ok",
                   events |-> <<>>, connects |-> <<>>,
                   before |-> [s |-> NoSource, b |-> [open |-> {}, n |-> 0]]]

SourceNext == SourceConstruct \/ SourceRead \/ SourceClose

SourceSpec == SourceInit /\ [][SourceNext]_vars

AppIdle == TrackerIdle /\ AnnouncerIdle /\ GuiIdle /\ SourceIdle

FactoryInit == AppIdle /\ LibIdle

FactoryNext ==
    \/ BuildSourceBegin
    \/ WorkerPut
    \/ WorkerExit
    \/ WorkerTerminated
    \/ WorkerKilled
    \/ ProbeFirstCheck
    \/ ProbeSecondCheck
    \/ ProbeReturnAfterKill
    \/ BuildSourceEnd

\* Every join of run_ndi_probe_in_subprocess has a timeout and nothing else
\* in it blocks, so the caller's next step is always taken; a SIGKILL
\* cannot be ignored.  The helper itself owes no progress.
FactorySpec ==
    /\ FactoryInit
    /\ [][FactoryNext]_vars
    /\ WF_vars(ProbeFirstCheck)
    /\ WF_vars(ProbeSecondCheck)
    /\ WF_vars(ProbeReturnAfterKill)
    /\ WF_vars(BuildSourceEnd)
    /\ WF_vars(WorkerKilled)

SelectInit ==
    /\ AppIdle
    /\ CoreIdle
    /\ FactoryIdle
    /\ ClockIdle
    /\ MapperIdle
    /\ sel_in \in [discovered : DiscoveredLists, requested : RequestedTexts]
    /\ sel_out = NotCalled

SelectNext == SelectCall

SelectSpec == SelectInit /\ [][SelectNext]_vars

ClockInit ==
    /\ AppIdle
    /\ CoreIdle
    /\ FactoryIdle
    /\ SelectIdle
    /\ MapperIdle
    /\ \E interval \in 1..MaxInterval : clock = FrameClock_init(interval, 0)
    /\ clock_time = 0
    /\ clock_hist = <<>>

ClockNext == ClockTimePasses \/ ClockTick

ClockSpec == ClockInit /\ [][ClockNext]_vars

MapperInit ==
    /\ AppIdle
    /\ CoreIdle
    /\ FactoryIdle
    /\ SelectIdle
    /\ ClockIdle
    /\ \E regions \in RegionLists : mapper = [regions |-> regions]
    /\ map_in \in GridPoints
    /\ map_out = NotCalled

MapperNext == MapPoint \/ PolygonTest

MapperSpec == MapperInit /\ [][MapperNext]_vars

LibAllIdle == FactoryIdle /\ SelectIdle /\ ClockIdle /\ MapperIdle

PipelineInit == AppIdle /\ LibAllIdle /\ DetectorIdle /\ PipelineIdle

PipelineNext == PipelineRun \/ PipelinePass

PipelineSpec == PipelineInit /\ [][PipelineNext]_vars

DetectorInit ==
    /\ AppIdle
    /\ LibAllIdle
    /\ PipelineIdle
    /\ det_in \in [contours : ContourLists, min_area : MinAreas]
    /\ det_out = NotCalled

DetectorNext == DetectCall

DetectorSpec == DetectorInit /\ [][DetectorNext]_vars

(***************************************************************************)
(* Claims about the tracker (checked under TrackerSpec).                   *)
(***************************************************************************)
\* the ids start() has returned so far
IssuedIds == {tr_issued[i] : i \in 1..Len(tr_issued)}

\* C4: finish(id) returns true if and only if id was the active attempt id
\* at the call; when it returns true the active id is cleared and
\* is_connecting is false, when it returns false the tracker is unchanged;
\* is_connecting is true exactly when the active id is an issued id.
C4_FinishOnlyActive ==
    /\ (tr_op = "finish" =>
          /\ (tr_ret <=> (tr_prev.active_attempt_id = tr_arg))
          /\ (tr_ret => (~is_connecting(tracker) /\ tracker.active_attempt_id = None))
          /\ (~tr_ret => tracker = tr_prev))
    /\ (is_connecting(tracker) <=> tracker.active_attempt_id \in IssuedIds)

\* C4 witness: finish(2) succeeded on the active second attempt
C4_Witness ==
    /\ tr_op = "finish"
    /\ tr_ret
    /\ tr_arg = 2
    /\ tr_prev.active_attempt_id = 2
    /\ ~is_connecting(tracker)

\* C5: once an id is cancelled or superseded, finish(id) returns false in
\* every later state and leaves the tracker unchanged (is_connecting keeps
\* its value, a newer id stays active), and finish(newer active id) still
\* returns true.
C5_StaleFinishRejected ==
    /\ \A id \in tr_dead :
          /\ Tracker_finish(tracker, id).ret = FALSE
          /\ Tracker_finish(tracker, id).tr = tracker
    /\ (tr_op = "finish" /\ tr_arg \in tr_dead =>
          /\ tr_ret = FALSE
          /\ tracker = tr_prev)
    /\ (is_connecting(tracker) =>
          Tracker_finish(tracker, tracker.active_attempt_id).ret = TRUE)

\* C5 witness: A was superseded by B, finish(A) was called and B is still active
C5_Witness ==
    /\ tr_op = "finish"
    /\ tr_arg = 1
    /\ 1 \in tr_dead
    /\ tracker.active_attempt_id = 2
    /\ 2 \notin tr_dead

\* C6: every start() returns an id strictly greater than every id returned
\* before it, across cancels and finishes.
C6_IdsStrictlyIncreasing ==
    \A i, j \in 1..Len(tr_issued) : i < j => tr_issued[i] < tr_issued[j]

\* C6 witness: a third id was issued after an earlier attempt was cancelled
\* or superseded
C6_Witness ==
    /\ tr_op = "start"
    /\ Len(tr_issued) >= 3
    /\ tr_dead # {}
    /\ ~is_connecting(tr_prev)

\* C7: cancel() returns the active attempt id and clears it; with no active
\* attempt it returns None and changes nothing; the id counter is unaffected.
C7_CancelReturnsActive ==
    tr_op = "cancel" =>
        /\ tr_ret = tr_prev.active_attempt_id
        /\ tracker.active_attempt_id = None
        /\ tracker.next_attempt_id = tr_prev.next_attempt_id
        /\ (~is_connecting(tr_prev) => (tr_ret = None /\ tracker = tr_prev))

\* C7 witness: cancel() returned the active id 2
C7_Witness ==
    /\ tr_op = "cancel"
    /\ tr_ret = 2
    /\ is_connecting(tr_prev)
    /\ ~is_connecting(tracker)

(***************************************************************************)
(* Claims about the Announcer (checked under AnnouncerSpec).               *)
(***************************************************************************)
\* the inputs of the last k calls all equal c
LastInputsAre(k, c) ==
    /\ Len(ann_inputs) >= k
    /\ \A i \in (Len(ann_inputs) - k + 1)..Len(ann_inputs) : ann_inputs[i] = c

\* C9: a process call returns an announcement for callout c only if c was
\* the input of that call and of the stable_frames - 1 calls immediately
\* before it (no None and no other callout in between); a callout that
\* differs from the previous input restarts the count at 1.
C9_AnnounceOnlyAfterStableRun ==
    /\ (ann_ret # NoText =>
          \E c \in Callouts :
              /\ ann_ret = announce_text(c)
              /\ LastInputsAre(announcer.stable_frames, c))
    /\ (/\ Len(ann_inputs) >= 2
        /\ ann_inputs[Len(ann_inputs)] # NoCallout
        /\ ann_inputs[Len(ann_inputs)] # ann_inputs[Len(ann_inputs) - 1]
        => announcer.candidate_count = 1)

\* C9 witness: with stable_frames = 2, "A" was announced on its second
\* consecutive input, after "Mid" had been announced earlier
C9_Witness ==
    /\ announcer.stable_frames = 2
    /\ ann_ret = announce_text("A")
    /\ announcer.candidate_count = 2
    /\ "Mid" \in DOMAIN announcer.last_announced_at

\* C10: while the now values are non-decreasing, an announcement of a
\* callout comes at least cooldown_sec after the previous announcement of
\* the same callout, whatever was fed in between.
C10_CooldownBetweenAnnouncements ==
    (ann_mono /\ ann_gap # None) => ann_gap >= announcer.cooldown_sec

\* C10 witness: a callout was announced a second time, under non-decreasing
\* now values, after the count had been restarted in between
C10_Witness ==
    /\ ann_mono
    /\ ann_gap # None
    /\ ann_ret # NoText
    /\ announcer.stable_frames = 2
    /\ announcer.candidate_count = 2

\* the callout given to the last process call
LastInput == ann_inputs[Len(ann_inputs)]

\* C11: when a fresh Announcer is given the same callout on every call (and
\* the sink works), the count is the number of calls; the calls before the
\* stable_frames-th return None, the stable_frames-th returns the first
\* announcement, and every later call returns None if now minus the last
\* announcement is below cooldown_sec and an announcement otherwise, the
\* count never having to start again.
C11_SameCalloutEveryTick ==
    (ann_uniform # None /\ ann_uniform >= 1) =>
        /\ announcer.candidate = LastInput
        /\ announcer.candidate_count = ann_uniform
        /\ (ann_uniform < announcer.stable_frames => ann_ret = NoText)
        /\ (ann_uniform = announcer.stable_frames =>
               /\ LastInput \notin DOMAIN ann_prev_last
               /\ ann_ret = announce_text(LastInput))
        /\ (ann_uniform > announcer.stable_frames =>
               /\ LastInput \in DOMAIN ann_prev_last
               /\ (ann_now - ann_prev_last[LastInput] < announcer.cooldown_sec
                     => ann_ret = NoText)
               /\ (ann_now - ann_prev_last[LastInput] >= announcer.cooldown_sec
                     => ann_ret = announce_text(LastInput)))

\* C11 witness: stable_frames = 1, cooldown_sec = 2, "Mid" on three calls at
\* rising times: the third call announces again, exactly cooldown_sec after
\* the first announcement, with the count at 3
C11_Witness ==
    /\ announcer.stable_frames = 1
    /\ announcer.cooldown_sec = 2
    /\ ann_uniform = 3
    /\ ann_mono
    /\ LastInput = "Mid"
    /\ ann_ret = announce_text("Mid")
    /\ ann_gap = 2
    /\ announcer.candidate_count = 3

\* C12: a process call given None returns None, calls say() not at all, sets
\* the candidate to None and the count to 0 and leaves _last_announced_at as
\* it was; the call after it, given any callout, leaves the count at 1.
C12_NoneInputResetsCandidateOnly ==
    /\ (ann_inputs # <<>> /\ LastInput = NoCallout) =>
          /\ ann_ret = NoText
          /\ tts_said = <<>>
          /\ ~ann_raised
          /\ announcer.candidate = NoCallout
          /\ announcer.candidate_count = 0
          /\ announcer.last_announced_at = ann_prev_last
    /\ (/\ Len(ann_inputs) >= 2
        /\ ann_inputs[Len(ann_inputs) - 1] = NoCallout
        /\ LastInput # NoCallout) =>
          /\ announcer.candidate = LastInput
          /\ announcer.candidate_count = 1

\* C12 witness: None was given right after "Mid", with both callouts
\* announced earlier
C12_Witness ==
    /\ ann_inputs = <<"Mid", NoCallout>>
    /\ DOMAIN announcer.last_announced_at = Callouts
    /\ announcer.candidate_count = 0

\* C13: no call removes a timestamp; a call changes no timestamp but that of
\* the callout it was given; and a callout given on the last stable_frames
\* calls is announced (the sink working) whenever it was itself never
\* announced or announced at least cooldown_sec ago, whatever the other
\* callouts' timestamps are.
C13_CooldownsPerCallout ==
    /\ DOMAIN ann_prev_last \subseteq DOMAIN announcer.last_announced_at
    /\ \A d \in Callouts :
          (ann_inputs = <<>> \/ d # LastInput) =>
              /\ d \in DOMAIN announcer.last_announced_at <=> d \in DOMAIN ann_prev_last
              /\ d \in DOMAIN ann_prev_last =>
                     announcer.last_announced_at[d] = ann_prev_last[d]
    /\ \A c \in Callouts :
          (/\ LastInputsAre(announcer.stable_frames, c)
           /\ ~ann_raised
           /\ \/ c \notin DOMAIN ann_prev_last
              \/ ann_now - ann_prev_last[c] >= announcer.cooldown_sec)
          => ann_ret = announce_text(c)

\* C13 witness: "A" is announced for the first time while "Mid" was
\* announced less than cooldown_sec earlier
C13_Witness ==
    /\ ann_mono
    /\ ann_ret = announce_text("A")
    /\ "A" \notin DOMAIN ann_prev_last
    /\ "Mid" \in DOMAIN ann_prev_last
    /\ ann_now - ann_prev_last["Mid"] < announcer.cooldown_sec

\* C14: a process call calls say() at most once; a call that returns a
\* message called say() once with that message and has set the callout's
\* timestamp to now; a call that returns None called say() not at all; a call
\* that returns no message (None, or the sink's exception) changed no
\* timestamp.
C14_SayOncePerAnnouncement ==
    /\ Len(tts_said) <= 1
    /\ ann_ret # NoText =>
          /\ tts_said = <<ann_ret>>
          /\ ann_ret = announce_text(LastInput)
          /\ announcer.last_announced_at[LastInput] = ann_now
    /\ (ann_ret = NoText /\ ~ann_raised) => tts_said = <<>>
    /\ ann_ret = NoText => announcer.last_announced_at = ann_prev_last

\* C14 witness: "Mid" is announced a second time; say() got the returned text
\* and the timestamp moved from its old value to now
C14_Witness ==
    /\ ann_ret = announce_text("Mid")
    /\ tts_said = <<announce_text("Mid")>>
    /\ "Mid" \in DOMAIN ann_prev_last
    /\ ann_prev_last["Mid"] < ann_now
    /\ announcer.last_announced_at["Mid"] = ann_now

(***************************************************************************)
(* Claims about the Announcer and a failing sink (checked under            *)
(* SinkFailureSpec).                                                       *)
(***************************************************************************)
\* C15: if say() raised in a process call at time t for callout c, a later
\* call for c with now - t < cooldown_sec does not call say().
C15_NoSayAgainAfterSinkFailure ==
    (/\ ann_fail # NoFail
     /\ LastInput = ann_fail.callout
     /\ ann_now >= ann_fail.at
     /\ ann_now - ann_fail.at < announcer.cooldown_sec)
    => tts_said = <<>>

(***************************************************************************)
(* Claims about the GUI connect flow (checked under Spec).                 *)
(***************************************************************************)
\* C1: a source returned by the worker of an attempt that is no longer the
\* active attempt when its _on_connect_done runs is never the current
\* source: it is closed, and that callback leaves the current source as it
\* was.
C1_StaleSourceNeverInstalled ==
    /\ \A a \in ConnectIds :
          done_seen[a] = "stale" =>
              /\ app.source # a
              /\ (future_state[a] = "source" => src_state[a] = "closed")
    /\ (gui_last.op = "done" /\ ~gui_last.active =>
          app.source = gui_last.prev.source)

\* C1 witness: attempt 1 returned a source after it had stopped being
\* active; the source was closed, and attempt 2's source got installed
C1_Witness ==
    /\ done_seen[1] = "stale"
    /\ future_state[1] = "source"
    /\ src_state[1] = "closed"
    /\ app.source = 2
    /\ src_state[2] = "open"

\* C2: the _on_connect_done of an attempt for which finish(id) returns false
\* mutates no shared state: the app object, and in particular the
\* cancellation event and the future stored for the active newer attempt,
\* are as they were before the callback.
C2_StaleDoneMutatesNothing ==
    (gui_last.op = "done" /\ ~gui_last.active) =>
        /\ app.connect_cancel_event = gui_last.prev.connect_cancel_event
        /\ app.connect_future = gui_last.prev.connect_future
        /\ app = gui_last.prev

\* C3: every attempt ended by _cancel_connect or by its timeout timer has
\* the cancellation event that was handed to its worker set.
C3_EndedAttemptIsSignalled ==
    \A a \in gui_ended : a \in event_set

\* C8: a worker whose first checkpoint sees the flag set never opens a
\* source; a worker whose second checkpoint sees it set has closed the
\* source it opened; both end with the cancelled outcome and return no
\* source.
C8_WorkerCheckpoints ==
    \A a \in ConnectIds :
        /\ (chk1[a] = "set" =>
              /\ src_state[a] = "unbuilt"
              /\ chk2[a] = "none"
              /\ future_state[a] = "connect_cancelled")
        /\ (chk2[a] = "set" =>
              /\ src_state[a] = "closed"
              /\ future_state[a] = "connect_cancelled")

\* C8 witness: attempt 1 was cancelled while its worker was opening the
\* source, attempt 2 before its worker started
C8_Witness ==
    /\ chk1[1] = "clear"
    /\ chk2[1] = "set"
    /\ src_state[1] = "closed"
    /\ chk1[2] = "set"
    /\ src_state[2] = "unbuilt"

(***************************************************************************)
(* Claims about the GUI's gate (checked under DetectSpec).                 *)
(***************************************************************************)
\* C16: when a main-thread handler has run _close_source on an installed
\* source (mode change, a new connect, a read-failure disconnect), the
\* gate's candidate is None and its count 0; hence an announcement is only
\* returned after stable_frames gate calls on the source now installed.
C16_DisconnectResetsGate ==
    /\ (/\ gui_last.op \in {"mode_change", "connect", "tick"}
        /\ gui_last.prev.source # None
        /\ app.source = None)
       => /\ gui_announcer.candidate = NoCallout
          /\ gui_announcer.candidate_count = 0
    /\ (gui_last.op = "tick" /\ gate_said # NoText)
       => gate_ticks >= gui_announcer.stable_frames

(***************************************************************************)
(* Claims about the frame sources (checked under SourceSpec).              *)
(***************************************************************************)
\* x is an open attempt
IsOpen(x) == x \in {"open_ok", "open_fail"}

\* the number of open attempts in the trace t
Opens(t) == Cardinality({i \in 1..Len(t) : IsOpen(t[i])})

\* x is the outcome of a connect or of a reconnect
IsConnect(x) == x \in {"connect_ok", "connect_fail"}
IsReconnect(x) == x \in {"reconnect_ok", "reconnect_fail"}
IsRead(x) == x \in {"read_ok", "read_fail"}

UrlRead == src_last.op = "read" /\ src_cfg.kind = "ndi_url"

\* the last read connected first if and only if the source had no capture;
\* if that connect failed the read raised SourceConnectError and did nothing
\* else; a read that saw a frame in time returned it without reconnecting
UrlReadConnectsFirst ==
    UrlRead =>
        LET ev == src_last.events
        IN /\ Len(ev) >= 1
           /\ IsConnect(ev[1]) <=> src_last.before.s.cap = None
           /\ \A i \in 2..Len(ev) : ~IsConnect(ev[i])
           /\ ev[1] = "connect_fail" <=> src_last.result = "connect_error"
           /\ ev[1] = "connect_fail" => Len(ev) = 1
           /\ (ev[1] # "connect_fail" /\ \A i \in 1..Len(ev) : ~IsReconnect(ev[i])) =>
                 /\ ev[Len(ev)] = "read_ok"
                 /\ src_last.result = "frame"
           /\ \A i \in 1..Len(ev) :
                 IsReconnect(ev[i]) =>
                    /\ i > 1
                    /\ ev[i - 1] = "read_fail"
                    /\ \A j \in 1..(i - 1) : ev[j] \in {"connect_ok", "read_fail"}
                    /\ \A j \in (i + 1)..Len(ev) : ~IsReconnect(ev[j])

\* C18 as stated: a read() of the OpenCV-URL source connects first if
\* disconnected (SourceConnectError if that fails), and after a timeout
\* makes exactly one reconnect followed by exactly one more backend read,
\* returning its frame or else raising SourceReadError.
C18_ReconnectThenOneMoreRead ==
    /\ UrlReadConnectsFirst
    /\ UrlRead =>
          LET ev == src_last.events
          IN \A i \in 1..Len(ev) :
                IsReconnect(ev[i]) =>
                   /\ Len(ev) = i + 1
                   /\ IsRead(ev[i + 1])
                   /\ ev[i + 1] = "read_ok" <=> src_last.result = "frame"
                   /\ ev[i + 1] = "read_fail" <=> src_last.result = "read_error"

\* C18 amended: as above, but the one more backend read is made only if the
\* reconnect succeeded; if the reconnect failed the read raises
\* SourceReadError at once, with no capture left to read from.
C18_ReconnectThenAtMostOneRead ==
    /\ UrlReadConnectsFirst
    /\ UrlRead =>
          LET ev == src_last.events
          IN \A i \in 1..Len(ev) :
                /\ ev[i] = "reconnect_ok" =>
                      /\ Len(ev) = i + 1
                      /\ IsRead(ev[i + 1])
                      /\ ev[i + 1] = "read_ok" <=> src_last.result = "frame"
                      /\ ev[i + 1] = "read_fail" <=> src_last.result = "read_error"
                /\ ev[i] = "reconnect_fail" =>
                      /\ Len(ev) = i
                      /\ src_last.result = "read_error"
                      /\ frame_source.cap = None

\* C18 witness: a disconnected source connected, polled twice without a
\* frame, reconnected and returned the frame of the one read after it
C18_Witness ==
    /\ UrlRead
    /\ src_last.events =
          <<"connect_ok", "read_fail", "read_fail", "reconnect_ok", "read_ok">>
    /\ src_last.result = "frame"

\* C19: a read() of the native NDISource whose connected backend gave no
\* video frame reconnects and reads once more before SourceReadError is
\* raised.
C19_NativeReadRetriesOnce ==
    (/\ src_last.op = "read"
     /\ src_cfg.kind = "ndi_native"
     /\ src_last.result = "read_error")
    => \E i \in 1..Len(src_last.events) :
          /\ IsReconnect(src_last.events[i])
          /\ \E j \in 1..(i - 1) : src_last.events[j] = "read_fail"

ProbeSignalsInOrder ==
    /\ probe.term_sent <=> probe.alive1
    /\ probe.kill_sent <=> probe.alive2
    /\ probe.alive2 => probe.alive1

ProbeTimeoutReported ==
    (probe.pc = "returned" /\ probe.alive1)
        => /\ probe.result = NDIProbeResult(FALSE, TRUE, TRUE)
           /\ probe.term_sent

ProbeOkOnlyFromDelivery ==
    (probe.pc = "returned" /\ probe.result.ok)
        => /\ ~probe.alive1
           /\ ~probe.result.timed_out
           /\ probe_proc.put_done
           /\ probe_proc.state = "exited"
           /\ factory_env.outcome = "returns"

\* C21: run_ndi_probe_in_subprocess always returns; when the helper is
\* still alive after the hard timeout it is sent terminate() first and
\* kill() only if it is still alive after that, and the result is ok=false,
\* timed_out=true, worker_terminated=true; a result with ok=true comes only
\* from a payload the helper delivered before the timeout (the helper had
\* put it and ended by the time of the first is_alive() test).
C21_ProbeAlwaysReturns ==
    /\ [](ProbeSignalsInOrder /\ ProbeTimeoutReported
           /\ ProbeOkOnlyFromDelivery)
    /\ ((probe.pc = "join") ~> (probe.pc = "returned"))

\* a helper that ignored SIGTERM was killed and the timeout was reported
C21_Witness ==
    /\ probe.pc = "returned"
    /\ probe.alive2
    /\ probe.kill_sent
    /\ factory_env.ignores_term
    /\ probe.result.timed_out

NdiSteps == <<"empty_source", "backend_module", "runtime", "probe", "construct">>

IsPrefix(s, t) == Len(s) <= Len(t) /\ s = SubSeq(t, 1, Len(s))

\* the steps build_source has run when it raises code in ndi mode
StepsOfCode(code) ==
    CASE code = "empty_source" -> 1
      [] code = "ndi_backend_missing" -> 2
      [] code = "ndi_runtime_missing" -> 3
      [] code = "ndi_probe_timeout" -> 4
      [] code = "ndi_probe_failed" -> 4
      [] code = "ndi_connect_failed" -> 5
      [] OTHER -> 0

\* C22: in ndi mode build_source runs its checks in the order empty-source,
\* backend module, runtime, probe, and constructs the NDISource only after
\* the probe reported ok; a failed step raises SourceFactoryError with no
\* later step run and no source constructed; the code is ndi_probe_timeout
\* when the probe timed out and ndi_probe_failed for any other probe failure.
C22_NdiChecksInOrder ==
    factory_env.mode = "ndi" =>
        /\ IsPrefix(factory.steps, NdiSteps)
        /\ (Len(factory.steps) = 5)
              => (probe.pc = "returned" /\ probe.result.ok)
        /\ factory.result.kind = "source"
              => (factory.steps = NdiSteps /\ factory.result.class = "NDISource")
        /\ factory.result.kind = "SourceFactoryError"
              => /\ Len(factory.steps) = StepsOfCode(factory.result.code)
                 /\ factory.result.code = "empty_source"
                        <=> factory_env.source_empty
                 /\ factory.result.code = "ndi_backend_missing"
                        <=> (~factory_env.source_empty
                             /\ ~factory_env.backend_module)
                 /\ factory.result.code = "ndi_runtime_missing"
                        <=> (~factory_env.source_empty
                             /\ factory_env.backend_module
                             /\ ~factory_env.runtime)
                 /\ factory.result.code = "ndi_probe_timeout"
                        <=> (Len(factory.steps) = 4 /\ probe.result.timed_out)
                 /\ factory.result.code = "ndi_probe_failed"
                        <=> (Len(factory.steps) = 4 /\ ~probe.result.ok
                             /\ ~probe.result.timed_out)
        /\ factory.pc = "done" => factory.result.kind # "none"

\* the NDISource was constructed after a probe that reported ok
C22_Witness ==
    /\ factory_env.mode = "ndi"
    /\ factory.pc = "done"
    /\ factory.result = Built("NDISource")
    /\ probe.result.ok

(***************************************************************************)
(* Claims about select_best_ndi_source (SelectSpec).                       *)
(***************************************************************************)
SelRequested == casefold(normalize_requested_source_text(sel_in.requested))

SelSources == 1..Len(sel_in.discovered)

\* source i matches by its full name: the name equals the requested name,
\* case aside
FullNameExact(i) == casefold(sel_in.discovered[i]) = SelRequested

\* source i matches through an alias: one of its aliases equals the
\* requested name, case aside
AliasExact(i) ==
    \E k \in 1..Len(aliases(sel_in.discovered[i])) :
        casefold(aliases(sel_in.discovered[i])[k]) = SelRequested

\* source i matches by containment: one of its aliases contains the
\* requested name or is contained in it, case aside
SubstringMatch(i) ==
    \E k \in 1..Len(aliases(sel_in.discovered[i])) :
        LET a == casefold(aliases(sel_in.discovered[i])[k]) IN
        contains(a, SelRequested) \/ contains(SelRequested, a)

\* C23: an exact match wins over a substring match whatever the discovery
\* order: when source i is the first whose full name equals the requested
\* name (case and ndi:// prefix aside) and the sources listed before it
\* match by containment at most (none of their aliases equals the requested
\* name), source i is returned.
C23_ExactBeforeSubstring ==
    (sel_out # NotCalled /\ SelRequested # <<>>)
        => \A i \in SelSources :
              ( /\ FullNameExact(i)
                /\ \A j \in 1..(i - 1) : ~FullNameExact(j) /\ ~AliasExact(j) )
                  => sel_out.index = i

\* the second source is returned for its exact name although the first
\* one contains the requested name
C23_Witness ==
    /\ sel_out # NotCalled
    /\ SelRequested # <<>>
    /\ Len(sel_in.discovered) = 2
    /\ SubstringMatch(1)
    /\ ~AliasExact(1)
    /\ FullNameExact(2)
    /\ sel_out.index = 2

\* C24: the tiers are full-name exact match, then alias variants, then
\* containment: when some source's full name equals the requested name,
\* case aside, the source returned is one whose full name does, also when
\* a source matching only through an alias is listed before it.
C24_FullNameBeforeAlias ==
    (sel_out # NotCalled /\ SelRequested # <<>>
     /\ \E i \in SelSources : FullNameExact(i))
        => (sel_out.index # 0 /\ FullNameExact(sel_out.index))

\* C25: the result is None exactly when the discovered list is empty, or
\* the normalized requested name is not empty and no alias of any source
\* equals it, contains it or is contained in it, case aside; with an empty
\* normalized requested name and a non-empty list it is the first source.
C25_NoneIffNoMatch ==
    sel_out # NotCalled =>
        /\ sel_out.index = 0
              <=> \/ sel_in.discovered = <<>>
                  \/ /\ SelRequested # <<>>
                     /\ \A i \in SelSources :
                            ~AliasExact(i) /\ ~SubstringMatch(i)
        /\ (SelRequested = <<>> /\ sel_in.discovered # <<>>)
              => sel_out.index = 1

\* None although the list is not empty: a name that is contained in the
\* requested name only as an alias would have matched, this one does not
C25_Witness ==
    /\ sel_out # NotCalled
    /\ Len(sel_in.discovered) = 2
    /\ SelRequested # <<>>
    /\ sel_out.index = 0

(***************************************************************************)
(* Claims about FrameClock (ClockSpec).                                    *)
(***************************************************************************)
LastTick == clock_hist[Len(clock_hist)]

\* C26: a tick() entered when the time is past next_tick by more than one
\* interval sets the next deadline to the current time plus one interval,
\* so the tick() after it does not return before a full interval is over.
C26_BehindResetsToNowPlusInterval ==
    /\ (clock_hist # <<>>
        /\ LastTick.entered > LastTick.deadline + clock.interval)
          => LastTick.next_tick = LastTick.returned + clock.interval
    /\ (Len(clock_hist) = 2
        /\ clock_hist[1].entered > clock_hist[1].deadline + clock.interval)
          => clock_hist[2].returned >= clock_hist[1].returned + clock.interval

\* C27 as stated: when every tick() so far was entered before its deadline
\* (the first one, whose deadline is the time of construction, no later
\* than it), the call did not return before the deadline, the deadline it
\* met was exactly one interval after the previous call's, and it returned
\* at least one interval after the previous call returned.
C27_OnTimeReturnsOneIntervalApart ==
    (Len(clock_hist) = 2 /\ LastTick.on_time)
        => /\ LastTick.returned >= LastTick.deadline
           /\ LastTick.deadline = clock_hist[1].deadline + clock.interval
           /\ LastTick.returned >= clock_hist[1].returned + clock.interval

\* C27: when every tick() so far was entered before its deadline, the call
\* did not return before the deadline and the deadline it met was exactly
\* one interval after the previous call's; it returned at least one
\* interval after the previous call returned if that call returned at its
\* deadline, and otherwise sooner by no more than that call's lateness.
C27_OnTimeDeadlinesOneIntervalApart ==
    (Len(clock_hist) = 2 /\ LastTick.on_time)
        => /\ LastTick.returned >= LastTick.deadline
           /\ LastTick.deadline = clock_hist[1].deadline + clock.interval
           /\ LastTick.returned - clock_hist[1].returned
                >= clock.interval
                   - (clock_hist[1].returned - clock_hist[1].deadline)
           /\ clock_hist[1].returned <= clock_hist[1].deadline
                => LastTick.returned
                     >= clock_hist[1].returned + clock.interval

\* a tick() that slept and returned one interval after the previous one,
\* which had slept to its deadline
C27_Witness ==
    /\ Len(clock_hist) = 2
    /\ LastTick.on_time
    /\ clock_hist[1].entered < clock_hist[1].deadline
    /\ clock_hist[1].returned = clock_hist[1].deadline
    /\ LastTick.entered < LastTick.deadline
    /\ LastTick.returned = clock_hist[1].returned + clock.interval

(***************************************************************************)
(* Claims about CalloutMapper (MapperSpec).  The geometry the claims speak *)
(* of is defined here in exact whole-number arithmetic, without the        *)
(* tolerance and without the ray.                                          *)
(***************************************************************************)
EdgeStart(polygon, i) == polygon[i]

EdgeEnd(polygon, i) == polygon[(i % Len(polygon)) + 1]

\* twice the signed area of the triangle a, b, p: positive when p lies to
\* the left of the line from a to b, zero when it lies on that line
Side(p, a, b) ==
    (b[1] - a[1]) * (p[2] - a[2]) - (b[2] - a[2]) * (p[1] - a[1])

Between(v, s, t) == (s <= v /\ v <= t) \/ (t <= v /\ v <= s)

\* p lies on the closed segment from a to b
OnEdge(p, a, b) ==
    /\ Side(p, a, b) = 0
    /\ Between(p[1], a[1], b[1])
    /\ Between(p[2], a[2], b[2])

OnBoundary(polygon, p) ==
    \E i \in 1..Len(polygon) :
        OnEdge(p, EdgeStart(polygon, i), EdgeEnd(polygon, i))

\* the polygon turns one way only (repeated and collinear vertices
\* allowed): of the model's polygons these are the triangles, the squares
\* and the closed ring
TurnsOneWay(polygon) ==
    LET turn(i) == Side(EdgeEnd(polygon, (i % Len(polygon)) + 1),
                        EdgeStart(polygon, i), EdgeEnd(polygon, i)) IN
    /\ Len(polygon) >= 3
    /\ \/ \A i \in 1..Len(polygon) : turn(i) >= 0
       \/ \A i \in 1..Len(polygon) : turn(i) <= 0

\* p is strictly inside a polygon that turns one way only: strictly on
\* the same side of every edge that has a length
StrictlyInside(polygon, p) ==
    LET real == {i \in 1..Len(polygon) :
                    EdgeStart(polygon, i) # EdgeEnd(polygon, i)} IN
    /\ TurnsOneWay(polygon)
    /\ real # {}
    /\ \/ \A i \in real :
             Side(p, EdgeStart(polygon, i), EdgeEnd(polygon, i)) > 0
       \/ \A i \in real :
             Side(p, EdgeStart(polygon, i), EdgeEnd(polygon, i)) < 0

\* p is strictly outside: the polygon has fewer than three vertices, or it
\* turns one way only and p is neither inside nor on an edge
StrictlyOutside(polygon, p) ==
    \/ Len(polygon) < 3
    \/ /\ TurnsOneWay(polygon)
       /\ ~StrictlyInside(polygon, p)
       /\ ~OnBoundary(polygon, p)

\* the parity of the ray casting alone: an odd number of edges is crossed
RayParityOdd(polygon, p) ==
    Cardinality({i \in 1..Len(polygon) :
        /\ intersects(p, EdgeStart(polygon, i), EdgeEnd(polygon, i))
        /\ xin_ge_x(p, EdgeStart(polygon, i), EdgeEnd(polygon, i))}) % 2 = 1

TestedPolygon == mapper.regions[map_out.region].polygon

\* C28: map_point returns the name of the first region, in the order the
\* regions were given, whose polygon contains the point, also when several
\* regions contain it; None when no region contains it; the region list is
\* left as it was.
C28_FirstContainingRegion ==
    (map_out # NotCalled /\ map_out.op = "map_point") =>
        LET hits == {i \in 1..Len(mapper.regions) :
                        point_in_polygon(map_in, mapper.regions[i].polygon)} IN
        /\ hits = {} => map_out.ret = NoCallout
        /\ \A i \in hits :
              (\A j \in hits : i <= j) => map_out.ret = mapper.regions[i].name
        /\ mapper.regions = map_out.regions_before

\* two regions contain the point and the first one's name is returned
C28_Witness ==
    /\ map_out # NotCalled
    /\ map_out.op = "map_point"
    /\ Len(mapper.regions) = 2
    /\ mapper.regions[1].polygon # mapper.regions[2].polygon
    /\ StrictlyInside(mapper.regions[1].polygon, map_in)
    /\ StrictlyInside(mapper.regions[2].polygon, map_in)
    /\ map_out.ret = mapper.regions[1].name

\* C29: point_in_polygon is true for every point strictly inside a polygon
\* of at least three vertices and false for every polygon of fewer;
\* map_point is None for every point strictly outside all the polygons.
C29_InsideTrueOutsideNone ==
    /\ (map_out # NotCalled /\ map_out.op = "point_in_polygon")
          => /\ StrictlyInside(TestedPolygon, map_in) => map_out.ret
             /\ Len(TestedPolygon) < 3 => ~map_out.ret
    /\ (map_out # NotCalled /\ map_out.op = "map_point"
        /\ \A i \in 1..Len(mapper.regions) :
              StrictlyOutside(mapper.regions[i].polygon, map_in))
          => map_out.ret = NoCallout

\* C30: a point exactly on an edge or on a vertex of a polygon of at least
\* three vertices is classified inside, whatever the parity of the ray
\* casting.
C30_BoundaryIsInside ==
    (map_out # NotCalled /\ map_out.op = "point_in_polygon"
     /\ Len(TestedPolygon) >= 3 /\ OnBoundary(TestedPolygon, map_in))
        => map_out.ret

\* a point on an edge of a triangle with an area, classified inside
\* although the ray from it crosses an even number of edges
C30_Witness ==
    /\ map_out # NotCalled
    /\ map_out.op = "point_in_polygon"
    /\ Len(TestedPolygon) = 3
    /\ \E q \in GridPoints : StrictlyInside(TestedPolygon, q)
    /\ OnBoundary(TestedPolygon, map_in)
    /\ ~RayParityOdd(TestedPolygon, map_in)
    /\ map_out.ret


(***************************************************************************)
(* Claims about Pipeline.run (PipelineSpec)                                *)
(***************************************************************************)
\* the names of the calls of one pass, in order
OpsOf(calls) == [k \in 1..Len(calls) |-> calls[k].op]

\* the calls of a pass without the clock.tick that may end it
TickCalls(calls) ==
    IF calls[Len(calls)].op = "clock.tick"
    THEN SubSeq(calls, 1, Len(calls) - 1)
    ELSE calls

ProcessCalls(calls) == {k \in 1..Len(calls) : calls[k].op = "process"}

\* C31: each pass of run calls read, detect, the mapper and the gate in that
\* order; a pass whose read returns None or raises makes no other call and is
\* the last pass of the run (a raise leaves run by the exception); a frame
\* with no marker still gives the gate exactly one call, with None
C31_PassOrder ==
    \A i \in 1..Len(pipe_ticks) :
        LET calls == pipe_ticks[i]
            tick == TickCalls(calls) IN
        /\ calls[1].op = "read"
        /\ calls[1].value \in {"None", "raise"} =>
              /\ Len(calls) = 1
              /\ i = Len(pipe_ticks)
              /\ pipeline.state =
                    (IF calls[1].value = "raise" THEN "raised" ELSE "returned")
        /\ calls[1].value = "frame" =>
              /\ Cardinality(ProcessCalls(calls)) = 1
              /\ IF calls[2] = Call("detect", "None")
                 THEN tick = <<Call("read", "frame"), Call("detect", "None"),
                               Call("process", NoCallout)>>
                 ELSE /\ OpsOf(tick) =
                           <<"read", "detect", "map_point", "process">>
                      /\ tick[4].value = tick[3].value

\* a frame with no marker was processed and the next read returned None
C31_Witness ==
    /\ Len(pipe_ticks) = 2
    /\ pipe_ticks[1][2] = Call("detect", "None")
    /\ pipe_ticks[2] = <<Call("read", "None")>>
    /\ pipeline.state = "returned"


\* the passes of the run so far that reached announcer.process
Ticks == {i \in 1..Len(pipe_ticks) : ProcessCalls(pipe_ticks[i]) # {}}

\* C32: run(max_frames=N) makes at most N calls of announcer.process for
\* every N >= 0, and the pass that reaches the bound does not call clock.tick
C32_AtMostMaxFramesTicks ==
    (pipeline.max_frames # None /\ pipeline.max_frames >= 0) =>
        /\ Cardinality(Ticks) <= pipeline.max_frames
        /\ \A i \in Ticks :
              (pipeline.state = "returned" /\ i = Len(pipe_ticks)) =>
                  pipe_ticks[i][Len(pipe_ticks[i])].op # "clock.tick"

\* what does hold: the bound stops the run after max(N, 1) ticks
C32_AtMostMaxFramesOrOneTick ==
    (pipeline.max_frames # None /\ pipeline.max_frames >= 0) =>
        /\ Cardinality(Ticks) <= Max(pipeline.max_frames, 1)
        /\ \A i \in Ticks :
              (pipeline.state = "returned" /\ i = Len(pipe_ticks)) =>
                  pipe_ticks[i][Len(pipe_ticks[i])].op # "clock.tick"


(***************************************************************************)
(* Claims about RedDotDetector.detect (DetectorSpec)                       *)
(***************************************************************************)
\* the contours of largest area among those found
LargestContours ==
    {det_in.contours[i] : i \in
        {i \in 1..Len(det_in.contours) :
            \A j \in 1..Len(det_in.contours) :
                det_in.contours[j].area <= det_in.contours[i].area}}

\* n is an integer nearest to a / b (b > 0): |n - a/b| <= 1/2
Nearest(n, a, b) == 2 * Abs(n * b - a) <= b

\* C34: detect returns the centroid (m10/m00, m01/m00) of the contour of
\* largest area, each coordinate rounded to the nearest integer, and None
\* when that contour's area is below min_area or its m00 is zero
C34_CentroidRoundedToNearest ==
    (det_out.kind = "returned" /\ det_in.contours # <<>>) =>
        \E best \in LargestContours :
            IF best.area < det_in.min_area \/ best.area = 0
            THEN det_out.point = NoPoint
            ELSE /\ det_out.point # NoPoint
                 /\ Nearest(det_out.point[1], best.m10, best.area)
                 /\ Nearest(det_out.point[2], best.m01, best.area)

\* what does hold: each coordinate is the centroid's with its fraction dropped
C34_CentroidTruncated ==
    (det_out.kind = "returned" /\ det_in.contours # <<>>) =>
        \E best \in LargestContours :
            IF best.area < det_in.min_area \/ best.area = 0
            THEN det_out.point = NoPoint
            ELSE /\ det_out.point # NoPoint
                 /\ \A k \in 1..2 :
                      LET m == IF k = 1 THEN best.m10 ELSE best.m01 IN
                      /\ det_out.point[k] * best.area <= m
                      /\ m < (det_out.point[k] + 1) * best.area


(***************************************************************************)
(* Claims about detection in the GUI tick loop (DetectSpec)                *)
(***************************************************************************)
\* C33: with detection on, a frame on which no marker is detected gives the
\* gate None and resets its stability count, and a frame is announced only
\* as the callout resolved on it
C33_NoMarkerResetsGate ==
    gui_last.op = "tick" =>
        /\ gate_seen = "no_marker" =>
              /\ gui_announcer.candidate = NoCallout
              /\ gui_announcer.candidate_count = 0
        /\ gate_said # NoText => gate_seen \in Callouts

\* what does hold: a frame without marker leaves the gate as it was, so only
\* frames on which a point was detected count as processed
C33_NoMarkerSkipsGate ==
    [][(gui_last'.op = "tick" /\ gate_seen' = "no_marker")
          => gui_announcer' = gui_announcer]_vars


(***************************************************************************)
(* Claims about the connect life cycle in the GUI (Spec, TimeoutSpec,      *)
(* LiveSpec)                                                               *)
(***************************************************************************)
\* C35: every source a connect worker built is eventually installed as the
\* GUI's current source or closed
C35_BuiltSourceInstalledOrClosed ==
    \A a \in ConnectIds :
        (src_state[a] = "open") ~> (src_state[a] = "closed" \/ app.source = a)

\* a source returned by its worker, whose completion callback was dropped
\* with the Tk root
SourceLeftOpen ==
    \E a \in ConnectIds :
        /\ app.is_closing
        /\ src_state[a] = "open"
        /\ future_state[a] = "source"
        /\ worker.pc = "idle"
        /\ tk_after0 = <<>>


\* C36: while a connect attempt is active in the tracker no frame source is
\* installed
C36_NoSourceWhileConnecting ==
    is_connecting(app.connect_tracker) => app.source = None

\* an attempt is active after an earlier attempt's source had been installed
C36_Witness ==
    /\ is_connecting(app.connect_tracker)
    /\ \E a \in ConnectIds :
          /\ done_seen[a] = "active"
          /\ future_state[a] = "source"
          /\ src_state[a] = "closed"


\* the timer of attempt a fires when a is no longer the active attempt
StaleTimeout(a) ==
    /\ tk_timers # <<>>
    /\ Head(tk_timers) = a
    /\ app.connect_tracker.active_attempt_id # a
    /\ tk_timers' = Tail(tk_timers)
    /\ gui_last'.op = "timeout"

\* C37: an active connect attempt eventually stops being active, whatever
\* its worker does, and a timeout timer that fires when its attempt is no
\* longer the active one changes nothing of the GUI, the events, the sources
\* or the worker
C37_AttemptEventuallyEnds ==
    /\ \A a \in ConnectIds :
          (app.connect_tracker.active_attempt_id = a)
              ~> (app.connect_tracker.active_attempt_id # a)
    /\ [][\A a \in ConnectIds :
            StaleTimeout(a) =>
                UNCHANGED <<app, event_set, gui_ended, src_state,
                            executor_queue, worker, future_state,
                            tk_after0>>]_vars

\* an attempt whose worker never got past build_source was ended by its
\* timeout timer, and a new attempt was requested after it
C37_Witness ==
    \E a \in ConnectIds :
        /\ worker = [attempt |-> a, pc |-> "build"]
        /\ a \in gui_ended
        /\ done_seen[a] = "none"
        /\ app.connect_tracker.active_attempt_id > a
        /\ \A i \in 1..Len(tk_timers) : tk_timers[i] > a


\* a step that is a connect request (a repeated ignored request changes
\* nothing at all and is a stuttering step)
ConnectRequestStep ==
    /\ gui_last' # gui_last
    /\ gui_last'.op \in {"connect", "connect_ignored"}

\* the attempts whose worker function is running on the executor's thread
RunningAttempts ==
    IF worker.pc = "idle" THEN {} ELSE {worker.attempt}

QueuedAttempts == {executor_queue[i] : i \in 1..Len(executor_queue)}

\* C38: a connect request made while an attempt is active issues no attempt
\* id, submits no worker, registers no timer, closes no source and leaves
\* the active attempt and its event as they are; every submitted attempt
\* that is not finished is either the one the executor's thread runs or
\* waits in its queue, so at most one worker is opening a source
C38_ConnectIgnoredWhileConnecting ==
    /\ [][(is_connecting(app.connect_tracker) /\ ConnectRequestStep) =>
            /\ gui_last'.op = "connect_ignored"
            /\ UNCHANGED <<app, event_set, executor_queue, worker,
                           future_state, tk_after0, tk_timers, src_state,
                           gui_ended>>]_vars
    /\ [](/\ Cardinality(RunningAttempts) <= 1
          /\ \A a \in ConnectIds :
                future_state[a] = "pending" =>
                    /\ a \in RunningAttempts \cup QueuedAttempts
                    /\ ~(a \in RunningAttempts /\ a \in QueuedAttempts))

\* a request was ignored while the thread is still in build_source for a
\* cancelled attempt and the active attempt waits in the queue
C38_Witness ==
    /\ gui_last.op = "connect_ignored"
    /\ gui_last.prev = app
    /\ is_connecting(app.connect_tracker)
    /\ worker.pc = "build"
    /\ worker.attempt \in gui_ended
    /\ executor_queue = <<app.connect_tracker.active_attempt_id>>


(***************************************************************************)
(* Claims about read failures in the GUI tick loop (Spec)                  *)
(***************************************************************************)
FailedReads == {"none", "read_error"}

C40_AtMostOneUnreleasedHandle ==
    src_cfg.kind = "ndi_url" =>
        /\ Cardinality(backend.open) <= 1
        /\ backend.open \subseteq Held(frame_source)

\* what does hold: only the reconnect inside read() leaves a capture
\* unreleased; constructor, close() and a read() without reconnect do not
C40_OnlyReconnectLeavesHandle ==
    (src_cfg.kind = "ndi_url"
        /\ src_last.before.b.open \subseteq Held(src_last.before.s)
        /\ ~(backend.open \subseteq Held(frame_source)))
    => /\ src_last.op = "read"
       /\ \E i \in 1..Len(src_last.events) :
             src_last.events[i] = "reconnect_ok"

====
